---- MODULE Spec2Model ----
(***************************************************************************)
(* A model of the scholarly-search backend: the Paper model and its        *)
(* reliability score (backend/models/paper.py), the search orchestrator    *)
(* with its deduplication and merge (backend/core/orchestrator.py) and the *)
(* paging loops of the adapters (backend/adapters).                        *)
(*                                                                         *)
(* A Python str is a sequence of one-character strings, so that lower(),   *)
(* strip(), re.sub() and split() are computed rather than assumed.  None   *)
(* and "" are both falsy and the code reads the optional string fields     *)
(* only through truth tests, so both are the empty sequence; an absent     *)
(* year is 0, which `if year` treats like None.  Scores are held in exact  *)
(* hundredths (0.30 is 30) and relevance in thousandths.                   *)
(***************************************************************************)
EXTENDS Integers, Sequences, FiniteSets, TLC

----------------------------------------------------------------------------
(* str methods *)

UpperLetters ==
    <<"A","B","C","D","E","F","G","H","I","J","K","L","M",
      "N","O","P","Q","R","S","T","U","V","W","X","Y","Z">>

LowerLetters ==
    <<"a","b","c","d","e","f","g","h","i","j","k","l","m",
      "n","o","p","q","r","s","t","u","v","w","x","y","z">>

Digits == {"0","1","2","3","4","5","6","7","8","9"}

Whitespace == {" ", "\t", "\n"}

IsUpper(c) == \E i \in DOMAIN UpperLetters : UpperLetters[i] = c

LowerChar(c) ==
    IF IsUpper(c)
    THEN LowerLetters[CHOOSE i \in DOMAIN UpperLetters : UpperLetters[i] = c]
    ELSE c

\* str.lower()
Lower(s) == [i \in 1..Len(s) |-> LowerChar(s[i])]

RECURSIVE LStrip(_)
LStrip(s) ==
    IF s # <<>> /\ Head(s) \in Whitespace THEN LStrip(Tail(s)) ELSE s

RECURSIVE RStrip(_)
RStrip(s) ==
    IF s # <<>> /\ s[Len(s)] \in Whitespace
    THEN RStrip(SubSeq(s, 1, Len(s) - 1))
    ELSE s

\* str.strip()
Strip(s) == RStrip(LStrip(s))

\* the class \w of re
IsWordChar(c) ==
    \/ IsUpper(c)
    \/ \E i \in DOMAIN LowerLetters : LowerLetters[i] = c
    \/ c \in Digits
    \/ c = "_"

\* re.sub(r'[^\w\s]', '', s)
StripPunctuation(s) ==
    SelectSeq(s, LAMBDA c : IsWordChar(c) \/ c \in Whitespace)

RECURSIVE SplitFrom(_, _, _)
SplitFrom(s, cur, acc) ==
    IF s = <<>>
    THEN IF cur = <<>> THEN acc ELSE Append(acc, cur)
    ELSE IF Head(s) \in Whitespace
         THEN SplitFrom(Tail(s), <<>>,
                        IF cur = <<>> THEN acc ELSE Append(acc, cur))
         ELSE SplitFrom(Tail(s), Append(cur, Head(s)), acc)

\* str.split() with no argument
Split(s) == SplitFrom(s, <<>>, <<>>)

RECURSIVE Join(_)
\* ' '.join(words)
Join(words) ==
    IF words = <<>> THEN <<>>
    ELSE IF Len(words) = 1 THEN words[1]
    ELSE words[1] \o <<" ">> \o Join(Tail(words))

\* `sub in s` for two strings
Contains(s, sub) ==
    \E i \in 0..(Len(s) - Len(sub)) : SubSeq(s, i + 1, i + Len(sub)) = sub

\* the elements of a sequence
Range(s) == { s[i] : i \in DOMAIN s }

----------------------------------------------------------------------------
(* backend/models/paper.py *)

OPEN == "open"
PAYWALLED == "paywalled"
UNKNOWN_ACCESS == "unknown"

AccessType == {OPEN, PAYWALLED, UNKNOWN_ACCESS}

PEER_REVIEWED == "peer_reviewed"
PREPRINT == "preprint"
CONFERENCE == "conference"
THESIS == "thesis"
BOOK_CHAPTER == "book_chapter"
GREY_LITERATURE == "grey_literature"
UNKNOWN_TYPE == "unknown"

SourceType ==
    {PEER_REVIEWED, PREPRINT, CONFERENCE, THESIS, BOOK_CHAPTER,
     GREY_LITERATURE, UNKNOWN_TYPE}

\* ReliabilityLevel: the value of each member is its colour
HIGH == "green"
MEDIUM == "yellow"
LOW == "red"

\* Optional[int] year: None
NoYear == 0

\* datetime.now().year
CurrentYear == 2026

HIGH_IMPACT_JOURNALS ==
    { <<"n","a","t","u","r","e">>,
      <<"s","c","i","e","n","c","e">>,
      <<"c","e","l","l">>,
      <<"t","h","e"," ","l","a","n","c","e","t">>,
      <<"n","e","w"," ","e","n","g","l","a","n","d"," ","j","o","u","r","n","a","l"," ","o","f"," ","m","e","d","i","c","i","n","e">>,
      <<"j","a","m","a">>,
      <<"b","m","j">>,
      <<"n","a","t","u","r","e"," ","m","e","d","i","c","i","n","e">>,
      <<"n","a","t","u","r","e"," ","g","e","n","e","t","i","c","s">>,
      <<"n","a","t","u","r","e"," ","b","i","o","t","e","c","h","n","o","l","o","g","y">>,
      <<"n","a","t","u","r","e"," ","c","o","m","m","u","n","i","c","a","t","i","o","n","s">>,
      <<"p","r","o","c","e","e","d","i","n","g","s"," ","o","f"," ","t","h","e"," ","n","a","t","i","o","n","a","l"," ","a","c","a","d","e","m","y"," ","o","f"," ","s","c","i","e","n","c","e","s">>,
      <<"p","h","y","s","i","c","a","l"," ","r","e","v","i","e","w"," ","l","e","t","t","e","r","s">>,
      <<"j","o","u","r","n","a","l"," ","o","f"," ","t","h","e"," ","a","m","e","r","i","c","a","n"," ","c","h","e","m","i","c","a","l"," ","s","o","c","i","e","t","y">>,
      <<"a","n","g","e","w","a","n","d","t","e"," ","c","h","e","m","i","e">>,
      <<"c","h","e","m","i","c","a","l"," ","r","e","v","i","e","w","s">>,
      <<"c","h","e","m","i","c","a","l"," ","s","o","c","i","e","t","y"," ","r","e","v","i","e","w","s">>,
      <<"n","e","u","r","o","n">>,
      <<"i","m","m","u","n","i","t","y">>,
      <<"m","o","l","e","c","u","l","a","r"," ","c","e","l","l">> }

REPUTABLE_PUBLISHERS ==
    { <<"n","a","t","u","r","e"," ","p","u","b","l","i","s","h","i","n","g"," ","g","r","o","u","p">>,
      <<"s","p","r","i","n","g","e","r">>,
      <<"e","l","s","e","v","i","e","r">>,
      <<"w","i","l","e","y">>,
      <<"c","e","l","l"," ","p","r","e","s","s">>,
      <<"a","m","e","r","i","c","a","n"," ","c","h","e","m","i","c","a","l"," ","s","o","c","i","e","t","y">>,
      <<"r","o","y","a","l"," ","s","o","c","i","e","t","y"," ","o","f"," ","c","h","e","m","i","s","t","r","y">>,
      <<"i","e","e","e">>,
      <<"a","m","e","r","i","c","a","n"," ","p","h","y","s","i","c","a","l"," ","s","o","c","i","e","t","y">>,
      <<"o","x","f","o","r","d"," ","u","n","i","v","e","r","s","i","t","y"," ","p","r","e","s","s">>,
      <<"c","a","m","b","r","i","d","g","e"," ","u","n","i","v","e","r","s","i","t","y"," ","p","r","e","s","s">>,
      <<"p","l","o","s">>,
      <<"f","r","o","n","t","i","e","r","s">>,
      <<"b","m","c">> }

\* ReliabilityScore(): the dataclass defaults
NewReliabilityScore ==
    [ peer_review |-> 0, journal |-> 0, citations |-> 0, verification |-> 0,
      recency |-> 0, is_retracted |-> FALSE, contradictions |-> <<>> ]

Max(a, b) == IF a >= b THEN a ELSE b
Min(a, b) == IF a <= b THEN a ELSE b

\* a mutation: the sum without the clamp
TotalUnclamped(score) ==
    IF score.is_retracted THEN 0
    ELSE (score.peer_review + score.journal + score.citations
          + score.verification + score.recency)
         - Len(score.contradictions) * 5

\* ReliabilityScore.total, in hundredths
Total(score) ==
    IF score.is_retracted THEN 0
    ELSE LET base == score.peer_review + score.journal + score.citations
                     + score.verification + score.recency
             penalty == Len(score.contradictions) * 5
         IN  Max(0, Min(100, base - penalty))

\* ReliabilityScore.level
Level(score) ==
    IF Total(score) >= 80 THEN HIGH
    ELSE IF Total(score) >= 50 THEN MEDIUM
    ELSE LOW

\* ReliabilityScore.color
Color(score) == Level(score)

\* calculate_reliability(paper, is_peer_reviewed, journal_name,
\*                       citation_count, sources_found, year, is_retracted)
calculate_reliability(paper, is_peer_reviewed, journal_name, citation_count, sources_found, year, is_retracted) ==
    IF is_retracted
    THEN [NewReliabilityScore EXCEPT !.is_retracted = TRUE]
    ELSE
    [ peer_review |->
          IF is_peer_reviewed THEN 30
          ELSE IF paper.source_type = PREPRINT THEN 10
          ELSE IF paper.source_type = CONFERENCE THEN 20
          ELSE 5,
      journal |->
          IF journal_name # <<>>
          THEN IF \E j \in HIGH_IMPACT_JOURNALS : Contains(Lower(journal_name), j)
               THEN 20
               ELSE IF paper.publisher # <<>>
                       /\ Lower(paper.publisher) \in REPUTABLE_PUBLISHERS
                    THEN 15
                    ELSE 10
          ELSE 0,
      citations |->
          IF citation_count >= 500 THEN 20
          ELSE IF citation_count >= 100 THEN 15
          ELSE IF citation_count >= 25 THEN 10
          ELSE IF citation_count >= 5 THEN 5
          ELSE IF citation_count >= 1 THEN 2
          ELSE 0,
      verification |->
          IF sources_found >= 5 THEN 20
          ELSE IF sources_found >= 3 THEN 15
          ELSE IF sources_found >= 2 THEN 10
          ELSE 5,
      recency |->
          IF year # NoYear
          THEN LET age == CurrentYear - year
               IN  IF age <= 2 THEN 10
                   ELSE IF age <= 5 THEN 7
                   ELSE IF age <= 10 THEN 4
                   ELSE 2
          ELSE 0,
      is_retracted |-> FALSE,
      contradictions |-> <<>> ]

\* Paper.reliability_score
reliability_score(paper) == Total(paper.reliability)

\* Paper(...): the dataclass, with the defaults of the fields left out
NewPaper(id, title, year, journal, doi, pmid, arxiv_id, citation_count, access_type, pdf_url, source, source_type) ==
    [ id |-> id, title |-> title, year |-> year, journal |-> journal,
      publisher |-> <<>>, doi |-> doi, pmid |-> pmid, arxiv_id |-> arxiv_id,
      abstract |-> <<>>, keywords |-> <<>>,
      citation_count |-> citation_count, access_type |-> access_type,
      pdf_url |-> pdf_url, source |-> source, source_type |-> source_type,
      sources_found_in |-> <<source>>,
      reliability |-> NewReliabilityScore,
      urls |-> <<>>, relevance_score |-> 0 ]

\* paper.reliability = calculate_reliability(paper, ..., sources_found=1, ...)
\* as every adapter's parser ends
Scored(paper) ==
    [paper EXCEPT !.reliability =
        calculate_reliability(paper, paper.source_type = PEER_REVIEWED,
                              paper.journal, paper.citation_count, 1,
                              paper.year, FALSE)]

----------------------------------------------------------------------------
(* backend/core/orchestrator.py: _normalize_title, _merge *)

stopwords ==
    { <<"t","h","e">>, <<"a">>, <<"a","n">>, <<"a","n","d">>, <<"o","r">>,
      <<"o","f">>, <<"i","n">>, <<"o","n">>, <<"f","o","r">>, <<"t","o">>,
      <<"w","i","t","h">> }

\* SearchOrchestrator._normalize_title
NormalizeTitle(title) ==
    IF title = <<>> THEN <<>>
    ELSE LET lowered == Lower(title)
             cleaned == StripPunctuation(lowered)
             collapsed == Join(Split(cleaned))
             words == SelectSeq(Split(collapsed), LAMBDA w : w \notin stopwords)
         IN  Join(words)

\* a mutation: the DOI key without lower()
DoiKeyCaseSensitive(doi) == Strip(doi)

\* key = paper.doi.lower().strip()
DoiKey(doi) == Strip(Lower(doi))

\* key = paper.pmid.strip()
PmidKey(pmid) == Strip(pmid)

\* key = paper.arxiv_id.lower().strip()
ArxivKey(arxiv_id) == Strip(Lower(arxiv_id))

\* a mutation: the title key without normalization
TitleKeyRaw(title) == title

\* key = self._normalize_title(paper.title)
TitleKey(title) == NormalizeTitle(title)

RECURSIVE AppendNew(_, _)
\* for x in items: if x not in target: target.append(x)
AppendNew(target, items) ==
    IF items = <<>> THEN target
    ELSE AppendNew(IF Head(items) \in Range(target)
                   THEN target
                   ELSE Append(target, Head(items)),
                   Tail(items))

\* dict.update: the keys of `more` overwrite
Update(d, more) == more @@ d

\* a mutation: the sources of the incoming record replace the survivor's
MergeSourcesReplaced(target, source) ==
    source.sources_found_in

\* the first loop of _merge: the ordered union of sources_found_in
MergeSources(target, source) ==
    AppendNew(target.sources_found_in, source.sources_found_in)

\* a mutation: the access type is copied from the incoming record
MergeAccessCopied(target, source) ==
    source.access_type

\* the access rule of _merge
MergeAccess(target, source) ==
    IF source.access_type = OPEN THEN OPEN ELSE target.access_type

\* a mutation: an identifier of the incoming record replaces the target's
MergeOverwriting(target, source) ==
    [target EXCEPT
        !.sources_found_in = MergeSources(target, source),
        !.citation_count =
            IF source.citation_count > target.citation_count
            THEN source.citation_count ELSE @,
        !.doi = IF source.doi # <<>> THEN source.doi ELSE @,
        !.pmid = IF source.pmid # <<>> THEN source.pmid ELSE @,
        !.arxiv_id = IF source.arxiv_id # <<>> THEN source.arxiv_id ELSE @,
        !.abstract = IF source.abstract # <<>> THEN source.abstract ELSE @,
        !.keywords = AppendNew(target.keywords, source.keywords),
        !.urls = Update(target.urls, source.urls),
        !.access_type = MergeAccess(target, source),
        !.pdf_url =
            IF source.access_type = OPEN /\ source.pdf_url # <<>>
            THEN source.pdf_url ELSE @ ]

\* SearchOrchestrator._merge(target, source): the new value of target
Merge(target, source) ==
    [target EXCEPT
        !.sources_found_in = MergeSources(target, source),
        !.citation_count =
            IF source.citation_count > target.citation_count
            THEN source.citation_count ELSE @,
        !.doi = IF target.doi = <<>> /\ source.doi # <<>> THEN source.doi ELSE @,
        !.pmid = IF target.pmid = <<>> /\ source.pmid # <<>> THEN source.pmid ELSE @,
        !.arxiv_id =
            IF target.arxiv_id = <<>> /\ source.arxiv_id # <<>>
            THEN source.arxiv_id ELSE @,
        !.abstract =
            IF target.abstract = <<>> /\ source.abstract # <<>>
            THEN source.abstract ELSE @,
        !.keywords = AppendNew(target.keywords, source.keywords),
        !.urls = Update(target.urls, source.urls),
        !.access_type = MergeAccess(target, source),
        !.pdf_url =
            IF source.access_type = OPEN /\ source.pdf_url # <<>>
            THEN source.pdf_url ELSE @ ]

----------------------------------------------------------------------------
(* backend/adapters: the records the parsers build.  A source renders the  *)
(* same DOI, identifier or title in its own letter case, spacing and       *)
(* punctuation.                                                            *)

\* paper.urls = {<role>: ...}; if doi: paper.urls["doi"] = ...
WithUrls(paper, role, key) ==
    [paper EXCEPT !.urls =
        IF paper.doi # <<>> THEN (role :> key) @@ ("doi" :> paper.doi)
        ELSE (role :> key)]

\* PubMedAdapter._parse_article
PubMedPaper(pmid, doi, title, pmcid) ==
    Scored(WithUrls(
        NewPaper(<<"pubmed_", pmid>>, title, 2018, <<"B","M","J">>, doi, pmid,
                 <<>>, 0, IF pmcid # <<>> THEN OPEN ELSE PAYWALLED, <<>>,
                 "PubMed", PEER_REVIEWED),
        "pubmed", pmid))

\* SemanticScholarAdapter._parse_paper
SemanticScholarPaper(paper_id, doi, pmid, arxiv_id, title, is_oa, cites) ==
    Scored(WithUrls(
        NewPaper(<<"s2_", paper_id>>, title, 2025, <<>>, doi, pmid, arxiv_id,
                 cites, IF is_oa THEN OPEN ELSE PAYWALLED, <<>>,
                 "Semantic Scholar",
                 IF arxiv_id # <<>> THEN PREPRINT ELSE PEER_REVIEWED),
        "semanticscholar", paper_id))

\* OpenAlexAdapter._parse_work
OpenAlexPaper(short_id, doi, pmid, title, is_oa, cites, year) ==
    Scored(WithUrls(
        NewPaper(<<"openalex_", short_id>>, title, year,
                 <<"N","a","t","u","r","e">>, doi, pmid, <<>>, cites,
                 IF is_oa THEN OPEN ELSE PAYWALLED, <<>>,
                 "OpenAlex", PEER_REVIEWED),
        "openalex", short_id))

\* ArXivAdapter._parse_entry
ArXivPaper(arxiv_id, doi, title) ==
    Scored(WithUrls(
        NewPaper(<<"arxiv_", arxiv_id>>, title, 2022, <<"a","r","X","i","v">>,
                 doi, <<>>, arxiv_id, 0, OPEN,
                 <<"p","d","f","/">> \o arxiv_id, "arXiv", PREPRINT),
        "arxiv", arxiv_id))

\* CrossRefAdapter._parse_work
CrossRefPaper(doi, title, pdf_url, cites) ==
    Scored(WithUrls(
        NewPaper(<<"crossref_", doi>>, title, 2000, <<"J"," ","X">>, doi,
                 <<>>, <<>>, cites,
                 IF pdf_url # <<>> THEN OPEN ELSE PAYWALLED, pdf_url,
                 "CrossRef", PEER_REVIEWED),
        "crossref", doi))

\* COREAdapter._parse_work
COREPaper(core_id, doi, title, download_url) ==
    Scored(WithUrls(
        NewPaper(<<"core_", core_id>>, title, NoYear, <<>>, doi, <<>>, <<>>, 0,
                 IF download_url # <<>> THEN OPEN ELSE UNKNOWN_ACCESS,
                 download_url, "CORE", UNKNOWN_TYPE),
        "core", core_id))

\* BASEAdapter._parse_doc
BASEPaper(doc_id, doi, title, is_oa) ==
    Scored(WithUrls(
        NewPaper(<<"base_", doc_id>>, title, NoYear, <<>>, doi, <<>>, <<>>, 0,
                 IF is_oa THEN OPEN ELSE UNKNOWN_ACCESS, <<>>,
                 "BASE", UNKNOWN_TYPE),
        "base", doc_id))

\* EuropePMCAdapter._parse_result
EuropePMCPaper(pmid, doi, title, is_oa, cites) ==
    Scored(WithUrls(
        NewPaper(<<"europmc_", pmid>>, title, 2018, <<"C","e","l","l">>, doi,
                 pmid, <<>>, cites, IF is_oa THEN OPEN ELSE PAYWALLED, <<>>,
                 "Europe PMC", PEER_REVIEWED),
        "europepmc", pmid))

\* The upstream values of the model: two works, "b" and "c", the DOIs 1/x
\* and 2/y, the PMID 7 and the arXiv id q1, as the sources spell them.
TitleOf(work, source) ==
    IF work = "b"
    THEN CASE source = "PubMed" -> <<"T","h","e"," ","B",".">>
           [] source = "CrossRef" -> <<"b">>
           [] source = "arXiv" -> <<"a"," "," ","b">>
           [] OTHER -> <<"B">>
    ELSE CASE source = "PubMed" -> <<"C",".">>
           [] OTHER -> <<"c">>

DoiOf(n, source) ==
    IF n = 1
    THEN CASE source = "CrossRef" -> <<"1","/","X">>
           [] source = "Europe PMC" -> <<"1","/","x"," ">>
           [] OTHER -> <<"1","/","x">>
    ELSE <<"2","/","y">>

PmidOf(source) ==
    IF source = "Semantic Scholar" THEN <<" ","7">> ELSE <<"7">>

ArxivOf(source) ==
    IF source = "Semantic Scholar" THEN <<"Q","1">> ELSE <<"q","1">>

Works == {"b", "c"}

\* what each source can return for the two works
PubMedShelf ==
    { PubMedPaper(PmidOf("PubMed"), <<>>, TitleOf(w, "PubMed"), <<>>) : w \in Works }

CrossRefShelf ==
    { CrossRefPaper(DoiOf(1, "CrossRef"), TitleOf(w, "CrossRef"), <<>>, 30)
        : w \in Works }
    \cup
    { CrossRefPaper(DoiOf(2, "CrossRef"), TitleOf("c", "CrossRef"),
                    <<"p","d","f","/","2">>, 3) }

ArXivShelf ==
    { ArXivPaper(ArxivOf("arXiv"), <<>>, TitleOf(w, "arXiv")) : w \in Works }

EuropePMCShelf ==
    { EuropePMCPaper(PmidOf("Europe PMC"), DoiOf(1, "Europe PMC"),
                     TitleOf(w, "Europe PMC"), TRUE, 5) : w \in Works }

SemanticScholarShelf ==
    { SemanticScholarPaper(<<"k">>, DoiOf(1, "Semantic Scholar"), <<>>,
                           ArxivOf("Semantic Scholar"),
                           TitleOf(w, "Semantic Scholar"), FALSE, 150)
        : w \in Works }
    \cup
    { SemanticScholarPaper(<<"m">>, <<>>, PmidOf("Semantic Scholar"),
                           ArxivOf("Semantic Scholar"),
                           TitleOf("b", "Semantic Scholar"), FALSE, 150) }

COREShelf ==
    { COREPaper(<<"9">>, <<>>, TitleOf("c", "CORE"), <<>>) }

OpenAlexShelf ==
    { OpenAlexPaper(<<"W","1">>, DoiOf(1, "OpenAlex"), <<>>,
                    TitleOf("b", "OpenAlex"), FALSE, 150, 2025) }

BASEShelf ==
    { BASEPaper(<<"d">>, <<>>, TitleOf("c", "BASE"), TRUE) }

----------------------------------------------------------------------------
(* State *)

VARIABLES
    pc,                 \* where the running call stands
    heap,               \* the Paper objects, by identity: all_papers is 1..Len(heap)
    dedup_in,           \* _deduplicate: the list `papers`, as object identities
    dedup_i,            \* _deduplicate: the position of the for loop
    by_doi, by_pmid, by_arxiv, by_title,    \* _deduplicate: the four maps
    unique,             \* _deduplicate: the list `unique`
    arrived,            \* history: the objects as they were fed to _deduplicate
    merged_into,        \* history: for each object, the objects _merge folded into it
    run,                \* which application of _deduplicate is running (1 or 2)
    first_out,          \* the list and the objects the first application returned
    query, config,      \* search: the arguments
    adapter_i,          \* search: the position of `for name, adapter in self.adapters.items()`
    sources_searched,   \* search: the list sources_searched
    search_ok,          \* history: for each adapter called, whether its search succeeded
    top_papers,         \* search: the list top_papers, as object identities
    cite_i,             \* search: the position of `for paper in top_papers`
    citation_papers,    \* search: the list citation_papers
    result,             \* what search returned
    events              \* history: the ProgressUpdates _notify passed to the callback

dedupVars ==
    <<pc, heap, dedup_in, dedup_i, by_doi, by_pmid, by_arxiv, by_title, unique,
      arrived, merged_into, run, first_out>>

searchVars ==
    <<query, config, adapter_i, sources_searched, search_ok, top_papers, cite_i,
      citation_papers, result, events>>

VARIABLES
    score_pc,           \* where the scored ReliabilityScore stands
    score,              \* a ReliabilityScore object
    seen,               \* what its properties total, level and color returned
    page_pc,            \* where the running adapter.search stands
    page_adapter,       \* adapter.search: the adapter called
    page_query,         \* adapter.search: the argument query
    page_max,           \* adapter.search: the argument max_results
    page_papers,        \* adapter.search: the list `papers`
    page_cursor,        \* EuropePMCAdapter.search: the variable cursor
    batches,            \* history: what each call of _search_batch returned
    page_result,        \* what adapter.search returned
    id_pc,              \* where the call of get_by_id stands
    id_adapter,         \* get_by_id: the adapter called
    paper_id,           \* get_by_id: the argument paper_id
    id_requests,        \* get_by_id: the HTTP requests it sent
    id_result,          \* what get_by_id returned
    limiter_pc,         \* whether a RateLimiter was created
    bucket,             \* RateLimiter.bucket: capacity, tokens, refill_rate, last_refill
    clock,              \* time.time()
    calls,              \* history: the number of calls of take() and wait()
    took,               \* history: the last take(): the bucket before it, the time, the return
    releases,           \* history: the times at which wait() returned
    \* app.py, /api/search/stream: the requests being served
    stream_pc,          \* per request: where search_stream and generate() are
    thread_pc,          \* per request: where the run_search thread is
    progress_callback,  \* orchestrator.progress_callback: the request whose on_progress is set
    progress_queue,     \* per request: its queue.Queue, oldest item first
    result_holder,      \* per request: result_holder[0]
    error_holder,       \* per request: error_holder[0]
    emitted,            \* history, per request: the updates its search notified
    stream_out,         \* history, per request: the events generate() yielded
    \* UnpaywallAdapter.enrich_paper
    enrich_pc,          \* "idle", "called", "returned"
    enrich_in,          \* the paper as it was passed in
    oa_response,        \* what the Unpaywall request came back with
    enriched,           \* the paper enrich_paper returned
    \* one RateLimiter called by several threads
    shared_bucket,      \* the TokenBucket of the limiter
    wall,               \* time.time(), in ticks
    caller_pc,          \* per thread: the statement of wait/take/refill it is at
    caller_now,         \* per thread: `now` of its refill
    caller_val,         \* per thread: the value it computed and has yet to store
    entered,            \* per thread: the calls of wait() it has made
    grants,             \* history: the take() calls that returned 0.0
    \* get_orchestrator called by several requests
    orchestrator,       \* the global: 0 for None, else the instance
    get_pc,             \* per request: the statement of get_orchestrator it is at
    created,            \* history: the SearchOrchestrators constructed, named by their makers
    got,                \* history, per request thread: the instances get_orchestrator returned
    \* _update_reliability called on a list of papers
    rescore_pc,         \* "idle", "made" (the list is built), "updated"
    rescore_in,         \* the papers as they were handed to _update_reliability
    rescore_out         \* the papers after it

scoreVars == <<score_pc, score, seen>>

pageVars ==
    <<page_pc, page_adapter, page_query, page_max, page_papers, page_cursor,
      batches, page_result>>

idVars == <<id_pc, id_adapter, paper_id, id_requests, id_result>>

limiterVars == <<limiter_pc, bucket, clock, calls, took, releases>>

streamVars ==
    <<stream_pc, thread_pc, progress_callback, progress_queue, result_holder,
      error_holder, emitted, stream_out>>

enrichVars == <<enrich_pc, enrich_in, oa_response, enriched>>

raceVars ==
    <<shared_bucket, wall, caller_pc, caller_now, caller_val, entered, grants>>

orchVars == <<orchestrator, get_pc, created, got>>

rescoreVars == <<rescore_pc, rescore_in, rescore_out>>

\* what the orchestrator's own steps leave alone
otherVars ==
    <<scoreVars, pageVars, idVars, limiterVars,
      streamVars, enrichVars, raceVars, orchVars, rescoreVars>>

\* what the steps on a ReliabilityScore, and those of adapter.search, leave alone
exceptScore ==
    <<dedupVars, searchVars, pageVars, idVars, limiterVars,
      streamVars, enrichVars, raceVars, orchVars, rescoreVars>>
exceptPage ==
    <<dedupVars, searchVars, scoreVars, idVars, limiterVars,
      streamVars, enrichVars, raceVars, orchVars, rescoreVars>>
exceptId ==
    <<dedupVars, searchVars, scoreVars, pageVars, limiterVars,
      streamVars, enrichVars, raceVars, orchVars, rescoreVars>>
exceptLimiter ==
    <<dedupVars, searchVars, scoreVars, pageVars, idVars,
      streamVars, enrichVars, raceVars, orchVars, rescoreVars>>
exceptStream ==
    <<dedupVars, searchVars, scoreVars, pageVars, idVars, limiterVars, enrichVars, raceVars, orchVars, rescoreVars>>
exceptRace ==
    <<dedupVars, searchVars, scoreVars, pageVars, idVars, limiterVars, streamVars,
      enrichVars, orchVars, rescoreVars>>
exceptOrch ==
    <<dedupVars, searchVars, scoreVars, pageVars, idVars, limiterVars, streamVars,
      enrichVars, raceVars, rescoreVars>>
exceptEnrich ==
    <<dedupVars, searchVars, scoreVars, pageVars, idVars, limiterVars,
      streamVars, raceVars, orchVars, rescoreVars>>
exceptRescore ==
    <<dedupVars, searchVars, scoreVars, pageVars, idVars, limiterVars,
      streamVars, enrichVars, raceVars, orchVars>>

vars ==
    <<dedupVars, searchVars, scoreVars, pageVars, idVars, limiterVars,
      streamVars, enrichVars, raceVars, orchVars, rescoreVars>>

\* bound: the longest list fed to _deduplicate
MaxDedupPapers == 3

SeqsUpTo(S, n) == UNION { [1..k -> S] : k \in 0..n }

DedupPool ==
    PubMedShelf \cup CrossRefShelf \cup ArXivShelf \cup EuropePMCShelf
    \cup SemanticScholarShelf \cup COREShelf

\* no first application has returned yet
NoOutput == [unique |-> <<>>, heap |-> <<>>]

\* SearchConfig(): the dataclass defaults
DefaultConfig ==
    [ max_per_source |-> 100, expand_citations |-> TRUE, citation_depth |-> 1,
      include_preprints |-> TRUE, min_reliability |-> 0,
      year_start |-> NoYear, year_end |-> NoYear ]

\* no call of search has returned yet
NoResult == [is_ok |-> FALSE, error |-> "none"]

\* no search is running
SearchIdle ==
    /\ query = <<>>
    /\ config = DefaultConfig
    /\ adapter_i = 0
    /\ sources_searched = <<>>
    /\ search_ok = <<>>
    /\ events = <<>>
    /\ top_papers = <<>>
    /\ cite_i = 0
    /\ citation_papers = <<>>
    /\ result = NoResult

\* no ReliabilityScore is being read
ScoreIdle ==
    /\ score_pc = "idle"
    /\ score = <<>>
    /\ seen = <<>>

\* no adapter.search is running on its own
PageIdle ==
    /\ page_pc = "idle"
    /\ page_adapter = ""
    /\ page_query = <<>>
    /\ page_max = 0
    /\ page_papers = <<>>
    /\ page_cursor = ""
    /\ batches = <<>>
    /\ page_result = <<>>

\* no get_by_id is running
IdIdle ==
    /\ id_pc = "idle"
    /\ id_adapter = ""
    /\ paper_id = <<>>
    /\ id_requests = 0
    /\ id_result = <<>>

\* no RateLimiter exists
LimiterIdle ==
    /\ limiter_pc = "idle"
    /\ bucket = <<>>
    /\ clock = 0
    /\ calls = 0
    /\ took = <<>>
    /\ releases = <<>>

\* nothing but the orchestrator is in use
\* the requests to /api/search/stream being served: two, so that one can
\* arrive while the other's search is running
Streams == {1, 2}

\* no request to /api/search/stream has arrived; no callback is set
StreamIdle ==
    /\ stream_pc = [s \in Streams |-> "idle"]
    /\ thread_pc = [s \in Streams |-> "idle"]
    /\ progress_callback = 0
    /\ progress_queue = [s \in Streams |-> <<>>]
    /\ result_holder = [s \in Streams |-> <<>>]
    /\ error_holder = [s \in Streams |-> <<>>]
    /\ emitted = [s \in Streams |-> <<>>]
    /\ stream_out = [s \in Streams |-> <<>>]

\* enrich_paper has not been called
EnrichIdle ==
    /\ enrich_pc = "idle"
    /\ enrich_in = <<>>
    /\ oa_response = <<>>
    /\ enriched = <<>>

\* bound: the threads that call one limiter at once
MaxThreads == 2

Threads == 1..MaxThreads

\* bound: the request threads that call get_orchestrator
MaxRequests == 3

Requests == 1..MaxRequests

\* no thread is in wait(); the limiter has not been built
RaceIdle ==
    /\ shared_bucket = <<>>
    /\ wall = 0
    /\ caller_pc = [c \in Threads |-> "idle"]
    /\ caller_now = [c \in Threads |-> 0]
    /\ caller_val = [c \in Threads |-> 0]
    /\ entered = [c \in Threads |-> 0]
    /\ grants = 0

\* orchestrator: Optional[SearchOrchestrator] = None, and no request yet
OrchIdle ==
    /\ orchestrator = 0
    /\ get_pc = [r \in Requests |-> "idle"]
    /\ created = {}
    /\ got = [r \in Requests |-> {}]

\* _update_reliability was not called
RescoreIdle ==
    /\ rescore_pc = "idle"
    /\ rescore_in = <<>>
    /\ rescore_out = <<>>

OthersIdle ==
    /\ RaceIdle
    /\ RescoreIdle
    /\ OrchIdle
    /\ ScoreIdle
    /\ PageIdle
    /\ IdIdle
    /\ LimiterIdle
    /\ StreamIdle
    /\ EnrichIdle

----------------------------------------------------------------------------
(* SearchOrchestrator._deduplicate *)

\* by_doi = {}; by_pmid = {}; by_arxiv = {}; by_title = {}; unique = []
DedupEnter(papers) ==
    /\ dedup_in' = papers
    /\ dedup_i' = 1
    /\ by_doi' = <<>>
    /\ by_pmid' = <<>>
    /\ by_arxiv' = <<>>
    /\ by_title' = <<>>
    /\ unique' = <<>>

\* by_x[key] = paper
Record(map, key, obj) == (key :> obj) @@ map

\* one iteration of `for paper in papers`
DedupStep ==
    /\ pc = "dedup"
    /\ dedup_i <= Len(dedup_in)
    /\ LET obj == dedup_in[dedup_i]
           paper == heap[obj]
           kd == DoiKey(paper.doi)
           checkD == paper.doi # <<>>
           hitD == checkD /\ kd \in DOMAIN by_doi
           kp == PmidKey(paper.pmid)
           checkP == ~hitD /\ paper.pmid # <<>>
           hitP == checkP /\ kp \in DOMAIN by_pmid
           ka == ArxivKey(paper.arxiv_id)
           checkA == ~hitD /\ ~hitP /\ paper.arxiv_id # <<>>
           hitA == checkA /\ ka \in DOMAIN by_arxiv
           kt == TitleKey(paper.title)
           checkT == ~hitD /\ ~hitP /\ ~hitA
           hitT == checkT /\ kt \in DOMAIN by_title
           merged == hitD \/ hitP \/ hitA \/ hitT
           target == IF hitD THEN by_doi[kd]
                     ELSE IF hitP THEN by_pmid[kp]
                     ELSE IF hitA THEN by_arxiv[ka]
                     ELSE by_title[kt]
       IN  /\ by_doi' = IF checkD /\ ~hitD THEN Record(by_doi, kd, obj) ELSE by_doi
           /\ by_pmid' = IF checkP /\ ~hitP THEN Record(by_pmid, kp, obj) ELSE by_pmid
           /\ by_arxiv' = IF checkA /\ ~hitA THEN Record(by_arxiv, ka, obj) ELSE by_arxiv
           /\ by_title' = IF checkT /\ ~hitT THEN Record(by_title, kt, obj) ELSE by_title
           /\ heap' = IF merged
                      THEN [heap EXCEPT ![target] = Merge(heap[target], paper)]
                      ELSE heap
           /\ merged_into' = IF merged
                             THEN [merged_into EXCEPT ![target] = @ \cup {obj}]
                             ELSE merged_into
           /\ unique' = IF merged THEN unique ELSE Append(unique, obj)
    /\ dedup_i' = dedup_i + 1
    /\ UNCHANGED <<pc, dedup_in, arrived, run, first_out>>
    /\ UNCHANGED searchVars
    /\ UNCHANGED otherVars

\* return unique
DedupReturn ==
    /\ pc = "dedup"
    /\ dedup_i > Len(dedup_in)
    /\ pc' = "deduped"
    /\ UNCHANGED <<heap, dedup_in, dedup_i, by_doi, by_pmid, by_arxiv, by_title,
                   unique, arrived, merged_into, run, first_out>>
    /\ UNCHANGED searchVars
    /\ UNCHANGED otherVars

\* self._deduplicate(self._deduplicate(L)): the second application, to the
\* list the first returned
DedupAgain ==
    /\ pc = "deduped"
    /\ run = 1
    /\ first_out' = [unique |-> unique, heap |-> heap]
    /\ run' = 2
    /\ pc' = "dedup"
    /\ DedupEnter(unique)
    /\ UNCHANGED <<heap, arrived, merged_into>>
    /\ UNCHANGED searchVars
    /\ UNCHANGED otherVars

\* _deduplicate applied to a list of records fresh from the adapters
InitDedup ==
    /\ heap \in SeqsUpTo(DedupPool, MaxDedupPapers)
    /\ pc = "dedup"
    /\ dedup_in = [i \in 1..Len(heap) |-> i]
    /\ dedup_i = 1
    /\ by_doi = <<>>
    /\ by_pmid = <<>>
    /\ by_arxiv = <<>>
    /\ by_title = <<>>
    /\ unique = <<>>
    /\ arrived = heap
    /\ merged_into = [i \in 1..Len(heap) |-> {}]
    /\ run = 1
    /\ first_out = NoOutput
    /\ SearchIdle
    /\ OthersIdle

NextDedup == DedupStep \/ DedupReturn \/ DedupAgain

SpecDedup == InitDedup /\ [][NextDedup]_vars

----------------------------------------------------------------------------
(* Properties of deduplication and merge *)

\* the objects of the list _deduplicate returned
Survivors == Range(unique)

Returned == pc = "deduped"

\* C2: no two papers of the list deduplication returns carry the same DOI,
\* compared lowercased and trimmed, when both carry one; so two records whose
\* DOIs differ only in letter case are never both in the list.
C2_DoiUnique ==
    Returned =>
        \A i, j \in DOMAIN unique :
            ( /\ i < j
              /\ heap[unique[i]].doi # <<>>
              /\ heap[unique[j]].doi # <<>> )
            => Strip(Lower(heap[unique[i]].doi)) # Strip(Lower(heap[unique[j]].doi))

\* C2 happens: a record was merged into a survivor whose DOI differs from
\* its own only in letter case.
C2_Witness ==
    /\ Returned
    /\ \E s \in Survivors : \E r \in merged_into[s] :
          /\ arrived[s].doi # <<>>
          /\ arrived[r].doi # arrived[s].doi
          /\ Len(arrived[r].doi) = Len(arrived[s].doi)
          /\ Lower(arrived[r].doi) = Lower(arrived[s].doi)

\* C3: no two papers of the returned list carry the same pmid, and no two
\* the same arxivId, identifiers back-filled by merge included.
C3_PmidArxivUnique ==
    Returned =>
        \A i, j \in DOMAIN unique :
            i < j =>
                /\ ( heap[unique[i]].pmid # <<>> /\ heap[unique[j]].pmid # <<>>
                     => Strip(heap[unique[i]].pmid) # Strip(heap[unique[j]].pmid) )
                /\ ( heap[unique[i]].arxiv_id # <<>> /\ heap[unique[j]].arxiv_id # <<>>
                     => Strip(Lower(heap[unique[i]].arxiv_id))
                        # Strip(Lower(heap[unique[j]].arxiv_id)) )

\* C4: no two papers of the returned list have the same normalized title.
C4_TitleUnique ==
    Returned =>
        \A i, j \in DOMAIN unique :
            i < j =>
                NormalizeTitle(heap[unique[i]].title)
                # NormalizeTitle(heap[unique[j]].title)

\* C4 happens: a record was merged by title into a survivor that spells the
\* title differently, and another title survives beside it.
C4_Witness ==
    /\ Returned
    /\ Len(unique) >= 2
    /\ \E s \in Survivors : \E r \in merged_into[s] :
          /\ arrived[r].title # arrived[s].title
          /\ NormalizeTitle(arrived[r].title) = NormalizeTitle(arrived[s].title)
          /\ arrived[r].doi = <<>>
          /\ arrived[r].pmid = <<>>
          /\ arrived[r].arxiv_id = <<>>

\* C5: deduplication is idempotent: applied to its own output it returns a
\* list of the same length, the same papers in the same order, no field of
\* any of them changed.
C5_Idempotent ==
    (Returned /\ run = 2) =>
        /\ Len(unique) = Len(first_out.unique)
        /\ unique = first_out.unique
        /\ \A s \in Survivors : heap[s] = first_out.heap[s]

\* the display names of the adapters whose records make up survivor s
FedBy(s) == { arrived[r].source : r \in merged_into[s] \cup {s} }

\* C6: for every paper of the returned list, sourcesFoundIn is non-empty, has
\* no repeated name and holds exactly the display names of the adapters that
\* returned a record merged into it, its own included.
C6_SourcesFoundIn ==
    (Returned /\ run = 1) =>
        \A s \in Survivors :
            LET names == heap[s].sources_found_in
            IN  /\ names # <<>>
                /\ \A i, j \in DOMAIN names : i # j => names[i] # names[j]
                /\ Range(names) = FedBy(s)
                /\ Len(names) = Cardinality(FedBy(s))

\* C6 happens: a survivor absorbed two records, one from its own adapter and
\* one from another.
C6_Witness ==
    /\ Returned /\ run = 1
    /\ \E s \in Survivors : \E r1, r2 \in merged_into[s] :
          /\ arrived[r1].source = arrived[s].source
          /\ arrived[r2].source # arrived[s].source

\* C7: access is monotone under merge: a paper that was Open, or absorbed a
\* record that was Open, is Open; and no step changes a paper from Open to
\* Paywalled or Unknown.
C7_AccessMonotone ==
    /\ [](\A o \in DOMAIN heap :
            ( \/ arrived[o].access_type = OPEN
              \/ \E r \in merged_into[o] : arrived[r].access_type = OPEN )
            => heap[o].access_type = OPEN)
    /\ [][\A o \in DOMAIN heap :
            heap[o].access_type = OPEN => heap'[o].access_type = OPEN]_vars

\* C7 happens: a survivor that arrived not Open absorbed an Open record and
\* then a record that was not Open.
C7_Witness ==
    /\ Returned /\ run = 1
    /\ \E s \in Survivors : \E r1, r2 \in merged_into[s] :
          /\ arrived[s].access_type # OPEN
          /\ arrived[r1].access_type = OPEN
          /\ arrived[r2].access_type # OPEN
          /\ r1 < r2
          /\ heap[s].access_type = OPEN

----------------------------------------------------------------------------
(* SearchOrchestrator.search *)

\* self.adapters, in registration order: the key and the adapter's name
Adapters ==
    << [key |-> "pubmed", name |-> "PubMed"],
       [key |-> "semantic_scholar", name |-> "Semantic Scholar"],
       [key |-> "openalex", name |-> "OpenAlex"],
       [key |-> "arxiv", name |-> "arXiv"],
       [key |-> "crossref", name |-> "CrossRef"],
       [key |-> "core", name |-> "CORE"],
       [key |-> "base", name |-> "BASE"],
       [key |-> "europe_pmc", name |-> "Europe PMC"] >>

\* bound: the longest list all_papers of a search
MaxPapers == 2

\* the records the upstream of each adapter holds during a search
Offers(name) ==
    CASE name = "PubMed" ->
           { PubMedPaper(PmidOf(name), <<>>, TitleOf("b", name), <<>>) }
      [] name = "Semantic Scholar" ->
           { SemanticScholarPaper(<<"k">>, DoiOf(1, name), <<>>, ArxivOf(name),
                                  TitleOf("b", name), FALSE, 150) }
      [] name = "OpenAlex" -> OpenAlexShelf
      [] name = "arXiv" ->
           { ArXivPaper(ArxivOf(name), <<>>, TitleOf("b", name)) }
      [] name = "CrossRef" ->
           { CrossRefPaper(DoiOf(1, name), TitleOf("c", name), <<>>, 30) }
      [] name = "CORE" ->
           { COREPaper(<<"9">>, <<>>, TitleOf("c", name), <<>>) }
      [] name = "BASE" -> BASEShelf
      [] name = "Europe PMC" ->
           { EuropePMCPaper(PmidOf(name), DoiOf(1, name), TitleOf("b", name),
                            TRUE, 5) }

\* the records the citation endpoints of Semantic Scholar hold
CitationOffers ==
    { SemanticScholarPaper(<<"m">>, <<>>, PmidOf("Semantic Scholar"),
                           ArxivOf("Semantic Scholar"),
                           TitleOf("c", "Semantic Scholar"), FALSE, 150) }

\* Result: Ok(value) and Err(error)
Ok(value) == [is_ok |-> TRUE, value |-> value]
Err(error) == [is_ok |-> FALSE, error |-> error]

\* adapter.search(query, max_results), for a query that is not blank: the
\* first batch fails, or the adapter returns what it parsed
AdapterOutcomes(name, room) ==
    {Err("Search failed")} \cup { Ok(s) : s \in SeqsUpTo(Offers(name), room) }

\* a call that ended in an exception instead of a Result
Raised(error) == [is_ok |-> FALSE, error |-> error, raised |-> TRUE]

IsRaised(outcome) == "raised" \in DOMAIN outcome

\* SemanticScholarAdapter.get_citations / get_references: no request without
\* an id; else the request fails, or the items are parsed, and _parse_paper
\* raises TypeError at `"Preprint" in pub_types` on an item whose
\* publicationTypes is null
CitationOutcomes(paper, room) ==
    IF paper.id[1] # "s2_" /\ paper.doi = <<>>
    THEN {Ok(<<>>)}
    ELSE {Err("Failed"), Raised("TypeError")}
         \cup { Ok(s) : s \in SeqsUpTo(CitationOffers, room) }

\* the queries and configurations of the model
Queries == { <<>>, <<" "," ">>, <<" ","b">> }

Configs ==
    { DefaultConfig,
      [DefaultConfig EXCEPT !.expand_citations = FALSE, !.min_reliability = 50,
                            !.year_start = 2010, !.year_end = 2025,
                            !.include_preprints = FALSE] }

\* results[:n]
Prefix(s, n) == SubSeq(s, 1, Min(Len(s), n))

\* a mutation: only the empty string is refused
IsBlankQueryEmptyOnly(q) == q = <<>>

\* not query or not query.strip()
IsBlankQuery(q) == q = <<>> \/ Strip(q) = <<>>

\* self._notify(phase, source, status): the ProgressUpdate the callback gets
ProgressUpdate(phase, source, status) ==
    [phase |-> phase, source |-> source, status |-> status]

\* search(query, config): the entry, up to the first adapter
StartSearch ==
    /\ pc = "idle"
    /\ \E q \in Queries, c \in Configs :
          /\ query' = q
          /\ config' = c
          /\ IF IsBlankQuery(q)
             THEN /\ result' = Err("Empty query")
                  /\ pc' = "done"
                  /\ adapter_i' = adapter_i
                  /\ events' = events
             ELSE /\ result' = result
                  /\ pc' = "search"
                  /\ adapter_i' = 1
                  /\ events' = Append(events, ProgressUpdate("Search", "", "running"))
    /\ UNCHANGED <<heap, sources_searched, search_ok, top_papers, cite_i,
                   citation_papers>>
    /\ UNCHANGED <<dedup_in, dedup_i, by_doi, by_pmid, by_arxiv, by_title, unique,
                   arrived, merged_into, run, first_out>>
    /\ UNCHANGED otherVars

\* a mutation: every adapter that was called is listed
SearchedAll(searched, name, outcome) == Append(searched, name)

\* if result.is_ok: sources_searched.append(adapter.name)
Searched(searched, name, outcome) ==
    IF outcome.is_ok THEN Append(searched, name) ELSE searched

\* one iteration of `for name, adapter in self.adapters.items()`
AdapterSearch ==
    /\ pc = "search"
    /\ adapter_i <= Len(Adapters)
    /\ LET name == Adapters[adapter_i].name
       IN  \E outcome \in AdapterOutcomes(name, MaxPapers - Len(heap)) :
              /\ heap' = IF outcome.is_ok THEN heap \o outcome.value ELSE heap
              /\ sources_searched' = Searched(sources_searched, name, outcome)
              /\ search_ok' = Append(search_ok, outcome.is_ok)
              /\ events' = events \o
                    << ProgressUpdate("Search", name, "running"),
                       ProgressUpdate("Search", name,
                                      IF outcome.is_ok THEN "complete" ELSE "error") >>
    /\ adapter_i' = adapter_i + 1
    /\ UNCHANGED <<pc, query, config, top_papers, cite_i, citation_papers, result>>
    /\ UNCHANGED <<dedup_in, dedup_i, by_doi, by_pmid, by_arxiv, by_title, unique,
                   arrived, merged_into, run, first_out>>
    /\ UNCHANGED otherVars

RECURSIVE SortDescBy(_, _)
\* sorted(objs, key=key, reverse=True): stable, equal keys keep their order
SortDescBy(objs, key) ==
    IF objs = <<>> THEN <<>>
    ELSE LET rest == SortDescBy(SubSeq(objs, 1, Len(objs) - 1), key)
             x == objs[Len(objs)]
             n == Cardinality({ i \in DOMAIN rest : key[rest[i]] >= key[x] })
         IN  SubSeq(rest, 1, n) \o <<x>> \o SubSeq(rest, n + 1, Len(rest))

\* the number of top-cited papers expanded, and of papers kept per call
TopCited == 20
KeptPerCall == 5

\* top_papers = sorted([p for p in all_papers if p.citation_count > 0], ...)[:20]
TopPapers(papers) ==
    LET cited == SelectSeq([i \in DOMAIN papers |-> i],
                           LAMBDA o : papers[o].citation_count > 0)
    IN  Prefix(SortDescBy(cited, [o \in DOMAIN papers |-> papers[o].citation_count]),
               TopCited)

\* the end of phase 1: phase 2 is entered or skipped
EnterCitations ==
    /\ pc = "search"
    /\ adapter_i > Len(Adapters)
    /\ IF config.expand_citations /\ heap # <<>>
       THEN /\ top_papers' = TopPapers(heap)
            /\ cite_i' = 1
            /\ pc' = "citations"
            /\ events' = Append(events, ProgressUpdate("Citations", "", "running"))
       ELSE /\ top_papers' = top_papers
            /\ cite_i' = cite_i
            /\ pc' = "process"
            /\ events' = events
    /\ UNCHANGED <<heap, query, config, adapter_i, sources_searched, search_ok,
                   citation_papers, result>>
    /\ UNCHANGED <<dedup_in, dedup_i, by_doi, by_pmid, by_arxiv, by_title, unique,
                   arrived, merged_into, run, first_out>>
    /\ UNCHANGED otherVars

\* one iteration of `for paper in top_papers`: get_citations, get_references;
\* an exception of either call leaves the loop and search
ExpandCitations ==
    /\ pc = "citations"
    /\ cite_i <= Len(top_papers)
    /\ LET paper == heap[top_papers[cite_i]]
           room == MaxPapers - Len(heap) - Len(citation_papers)
       IN  \E cites \in CitationOutcomes(paper, room) :
              LET kept == IF cites.is_ok THEN Prefix(cites.value, KeptPerCall)
                          ELSE <<>>
              IN  \E refs \in CitationOutcomes(paper, room - Len(kept)) :
                     IF IsRaised(cites)
                     THEN /\ citation_papers' = citation_papers
                          /\ cite_i' = cite_i
                          /\ pc' = "raised"
                     ELSE IF IsRaised(refs)
                     THEN /\ citation_papers' = citation_papers \o kept
                          /\ cite_i' = cite_i
                          /\ pc' = "raised"
                     ELSE /\ citation_papers' =
                                citation_papers \o kept
                                \o (IF refs.is_ok THEN Prefix(refs.value, KeptPerCall)
                                    ELSE <<>>)
                          /\ cite_i' = cite_i + 1
                          /\ pc' = pc
    /\ UNCHANGED <<heap, query, config, adapter_i, sources_searched,
                   search_ok, top_papers, result, events>>
    /\ UNCHANGED <<dedup_in, dedup_i, by_doi, by_pmid, by_arxiv, by_title, unique,
                   arrived, merged_into, run, first_out>>
    /\ UNCHANGED otherVars

\* all_papers.extend(citation_papers)
LeaveCitations ==
    /\ pc = "citations"
    /\ cite_i > Len(top_papers)
    /\ heap' = heap \o citation_papers
    /\ pc' = "process"
    /\ events' = Append(events, ProgressUpdate("Citations", "", "complete"))
    /\ UNCHANGED <<query, config, adapter_i, sources_searched, search_ok,
                   top_papers, cite_i, citation_papers, result>>
    /\ UNCHANGED <<dedup_in, dedup_i, by_doi, by_pmid, by_arxiv, by_title, unique,
                   arrived, merged_into, run, first_out>>
    /\ UNCHANGED otherVars

\* phase 3: unique_papers = self._deduplicate(all_papers), the call
EnterDedup ==
    /\ pc = "process"
    /\ DedupEnter([i \in DOMAIN heap |-> i])
    /\ arrived' = heap
    /\ merged_into' = [i \in DOMAIN heap |-> {}]
    /\ pc' = "dedup"
    /\ events' = Append(events, ProgressUpdate("Process", "", "running"))
    /\ UNCHANGED <<heap, run, first_out>>
    /\ UNCHANGED <<query, config, adapter_i, sources_searched, search_ok,
                   top_papers, cite_i, citation_papers, result>>
    /\ UNCHANGED otherVars

\* a mutation: the re-score counts one source, as the adapters' parsers do
UpdateReliabilitySingleSource(papers, objs) ==
    [o \in DOMAIN papers |->
        IF o \in Range(objs)
        THEN [papers[o] EXCEPT !.reliability =
                 calculate_reliability(papers[o],
                     papers[o].source_type = PEER_REVIEWED,
                     papers[o].journal, papers[o].citation_count,
                     1, papers[o].year, FALSE)]
        ELSE papers[o]]

\* SearchOrchestrator._update_reliability
UpdateReliability(papers, objs) ==
    [o \in DOMAIN papers |->
        IF o \in Range(objs)
        THEN [papers[o] EXCEPT !.reliability =
                 calculate_reliability(papers[o],
                     papers[o].source_type = PEER_REVIEWED,
                     papers[o].journal, papers[o].citation_count,
                     Len(papers[o].sources_found_in), papers[o].year, FALSE)]
        ELSE papers[o]]

\* math.log10(n) * 5, in thousandths rounded down, for the citation counts
\* of the model; the whole decades for the others
RECURSIVE FiveLog10(_)
FiveLog10(n) ==
    CASE n = 4 -> 3010
      [] n = 6 -> 3890
      [] n = 31 -> 7456
      [] n = 151 -> 10894
      [] OTHER -> IF n < 10 THEN 0 ELSE 5000 + FiveLog10(n \div 10)

\* the body of the loop of _rank_papers: the score, in thousandths
Relevance(paper, query_terms) ==
    LET title_part ==
            IF paper.title # <<>>
            THEN LET title_terms == Range(Split(NormalizeTitle(paper.title)))
                     overlap == Cardinality(query_terms \cap title_terms)
                 IN  (overlap * 30000) \div Max(Cardinality(query_terms), 1)
            ELSE 0
        abstract_part ==
            IF paper.abstract # <<>>
            THEN LET abstract_terms == Range(Split(NormalizeTitle(paper.abstract)))
                     overlap == Cardinality(query_terms \cap abstract_terms)
                 IN  Min(15000, overlap * 3000)
            ELSE 0
        citation_part ==
            IF paper.citation_count > 0
            THEN Min(20000, FiveLog10(paper.citation_count + 1))
            ELSE 0
        reliability_part == reliability_score(paper) * 200
        recency_part ==
            IF paper.year # NoYear
            THEN LET age == CurrentYear - paper.year
                 IN  IF age <= 2 THEN 10000
                     ELSE IF age <= 5 THEN 7000
                     ELSE IF age <= 10 THEN 4000
                     ELSE 1000
            ELSE 0
        open_part == IF paper.access_type = OPEN THEN 5000 ELSE 0
    IN  title_part + abstract_part + citation_part + reliability_part
        + recency_part + open_part

\* _rank_papers, the loop: paper.relevance_score = score
Ranked(papers, objs, q) ==
    LET query_terms == Range(Split(NormalizeTitle(q)))
    IN  [o \in DOMAIN papers |->
            IF o \in Range(objs)
            THEN [papers[o] EXCEPT !.relevance_score = Relevance(papers[o], query_terms)]
            ELSE papers[o]]

\* _rank_papers, the end: papers.sort(key=lambda p: p.relevance_score, reverse=True)
RankOrder(papers, objs) ==
    SortDescBy(objs, [o \in DOMAIN papers |-> papers[o].relevance_score])

\* a mutation: year_end is an exclusive bound
ApplyFiltersYearEndExclusive(papers, objs, c) ==
    LET f1 == IF c.min_reliability > 0
              THEN SelectSeq(objs, LAMBDA o : reliability_score(papers[o]) >= c.min_reliability)
              ELSE objs
        f2 == IF c.year_start # NoYear
              THEN SelectSeq(f1, LAMBDA o : papers[o].year # NoYear
                                            /\ papers[o].year >= c.year_start)
              ELSE f1
        f3 == IF c.year_end # NoYear
              THEN SelectSeq(f2, LAMBDA o : papers[o].year # NoYear
                                            /\ papers[o].year < c.year_end)
              ELSE f2
    IN  IF ~c.include_preprints
        THEN SelectSeq(f3, LAMBDA o : papers[o].source_type # PREPRINT)
        ELSE f3

\* search: `# Apply filters`
ApplyFilters(papers, objs, c) ==
    LET f1 == IF c.min_reliability > 0
              THEN SelectSeq(objs, LAMBDA o : reliability_score(papers[o]) >= c.min_reliability)
              ELSE objs
        f2 == IF c.year_start # NoYear
              THEN SelectSeq(f1, LAMBDA o : papers[o].year # NoYear
                                            /\ papers[o].year >= c.year_start)
              ELSE f1
        f3 == IF c.year_end # NoYear
              THEN SelectSeq(f2, LAMBDA o : papers[o].year # NoYear
                                            /\ papers[o].year <= c.year_end)
              ELSE f2
    IN  IF ~c.include_preprints
        THEN SelectSeq(f3, LAMBDA o : papers[o].source_type # PREPRINT)
        ELSE f3

SetMin(S) == CHOOSE x \in S : \A y \in S : x <= y
SetMax(S) == CHOOSE x \in S : \A y \in S : x >= y

\* a mutation: the medium band stops short of 0.8 by one hundredth
MediumBandShort(total) == 50 <= total /\ total < 79

\* 0.5 <= p.reliability_score < 0.8
MediumBand(total) == 50 <= total /\ total < 80

\* search: `# Build result` and `# Stats`
BuildResult(q, papers, ranked_papers, searched, removed) ==
    LET years == { papers[o].year : o \in { x \in Range(ranked_papers) :
                                             papers[x].year # NoYear } }
    IN  [ query |-> q,
          papers |-> ranked_papers,
          total_found |-> Len(ranked_papers),
          sources_searched |-> searched,
          duplicates_removed |-> removed,
          high_reliability |->
              Len(SelectSeq(ranked_papers, LAMBDA o : reliability_score(papers[o]) >= 80)),
          medium_reliability |->
              Len(SelectSeq(ranked_papers, LAMBDA o : MediumBand(reliability_score(papers[o])))),
          low_reliability |->
              Len(SelectSeq(ranked_papers, LAMBDA o : reliability_score(papers[o]) < 50)),
          open_access |->
              Len(SelectSeq(ranked_papers, LAMBDA o : papers[o].access_type = OPEN)),
          paywalled |->
              Len(SelectSeq(ranked_papers, LAMBDA o : papers[o].access_type = PAYWALLED)),
          earliest_year |-> IF years # {} THEN SetMin(years) ELSE NoYear,
          latest_year |-> IF years # {} THEN SetMax(years) ELSE NoYear ]

\* search, after _deduplicate returned: duplicates_removed, phases 4 and 5,
\* the filters, the result and its statistics, return Ok(result)
FinishSearch ==
    /\ pc = "deduped"
    /\ LET removed == Len(dedup_in) - Len(unique)
           scored == UpdateReliability(heap, unique)
           ranked == Ranked(scored, unique, query)
           order == RankOrder(ranked, unique)
           ranked_papers == ApplyFilters(ranked, order, config)
       IN  /\ heap' = ranked
           /\ unique' = order
           /\ result' = Ok(BuildResult(query, ranked, ranked_papers,
                                       sources_searched, removed))
    /\ pc' = "done"
    /\ events' = events \o
          << ProgressUpdate("Process", "Dedup", "complete"),
             ProgressUpdate("Process", "", "running"),
             ProgressUpdate("Process", "", "running"),
             ProgressUpdate("Complete", "", "complete") >>
    /\ UNCHANGED <<dedup_in, dedup_i, by_doi, by_pmid, by_arxiv, by_title,
                   arrived, merged_into, run, first_out>>
    /\ UNCHANGED <<query, config, adapter_i, sources_searched, search_ok,
                   top_papers, cite_i, citation_papers>>
    /\ UNCHANGED otherVars

\* _deduplicate is not running
DedupIdle ==
    /\ heap = <<>>
    /\ dedup_in = <<>>
    /\ dedup_i = 0
    /\ by_doi = <<>>
    /\ by_pmid = <<>>
    /\ by_arxiv = <<>>
    /\ by_title = <<>>
    /\ unique = <<>>
    /\ arrived = <<>>
    /\ merged_into = <<>>
    /\ run = 1
    /\ first_out = NoOutput

\* the orchestrator as app.py creates it, before a call of search
Init ==
    /\ pc = "idle"
    /\ DedupIdle
    /\ SearchIdle
    /\ OthersIdle

Next ==
    \/ StartSearch
    \/ AdapterSearch
    \/ EnterCitations
    \/ ExpandCitations
    \/ LeaveCitations
    \/ EnterDedup
    \/ DedupStep
    \/ DedupReturn
    \/ FinishSearch

Spec == Init /\ [][Next]_vars

\* the names of the adapters whose search succeeded, in registration order
Succeeded ==
    LET called == SelectSeq([i \in DOMAIN search_ok |-> i], LAMBDA i : search_ok[i])
    IN  [k \in DOMAIN called |-> Adapters[called[k]].name]

\* the filters of the configuration, as a condition on one paper
PassesFilters(paper, c) ==
    /\ c.min_reliability > 0 => reliability_score(paper) >= c.min_reliability
    /\ c.year_start # NoYear => paper.year # NoYear /\ paper.year >= c.year_start
    /\ c.year_end # NoYear => paper.year # NoYear /\ paper.year <= c.year_end
    /\ ~c.include_preprints => paper.source_type # PREPRINT

C8_BandsPartition ==
    (pc = "done" /\ result.is_ok) =>
        LET r == result.value
        IN  /\ r.high_reliability + r.medium_reliability + r.low_reliability
                  = r.total_found
            /\ r.total_found = Len(r.papers)
            /\ \A i \in DOMAIN r.papers : PassesFilters(heap[r.papers[i]], config)
            /\ Cardinality({ o \in Range(unique) : PassesFilters(heap[o], config) })
                  = r.total_found
            /\ r.open_access + r.paywalled <= r.total_found

\* a result with papers in two bands, one of them with unknown access
C8_Witness ==
    /\ pc = "done"
    /\ result.is_ok
    /\ result.value.total_found = 2
    /\ result.value.medium_reliability = 1
    /\ result.value.low_reliability = 1
    /\ result.value.open_access + result.value.paywalled < 2

-----------------------------------------------------------------------------
\* ReliabilityScore read on its own: models/paper.py

\* bound: the longest list of contradictions
MaxContradictions == 3

\* the papers and arguments calculate_reliability is called with
ScorePapers ==
    { [NewPaper(<<"p">>, <<"B">>, NoYear, j, <<>>, <<>>, <<>>, 0, UNKNOWN_ACCESS,
                <<>>, "CrossRef", st) EXCEPT !.publisher = pb] :
        st \in {PEER_REVIEWED, PREPRINT, CONFERENCE, UNKNOWN_TYPE},
        j \in { <<>>, <<"J">>, <<"T","h","e"," ","B","M","J">> },
        pb \in { <<>>, <<"P","L","O","S">> } }

ScoreCitations == {0, 1, 5, 25, 100, 500}
ScoreSources == {1, 2, 3, 5}
ScoreYears == {NoYear, CurrentYear - 1, CurrentYear - 4, CurrentYear - 9, 2000}

\* the values the parts of a ReliabilityScore are documented to take
PeerReviewValues == {0, 5, 10, 20, 30}
JournalValues == {0, 10, 15, 20}
CitationValues == {0, 2, 5, 10, 15, 20}
VerificationValues == {0, 5, 10, 15, 20}
RecencyValues == {0, 2, 4, 7, 10}

\* score = calculate_reliability(paper, ...)
ScoreCalculate ==
    /\ score_pc = "idle"
    /\ \E paper \in ScorePapers, is_peer_reviewed \in BOOLEAN,
          citation_count \in ScoreCitations, sources_found \in ScoreSources,
          year \in ScoreYears, is_retracted \in BOOLEAN :
          score' = calculate_reliability(paper, is_peer_reviewed, paper.journal,
                                         citation_count, sources_found, year,
                                         is_retracted)
    /\ score_pc' = "made"
    /\ UNCHANGED <<seen, exceptScore>>

\* score = ReliabilityScore(peer_review=..., ..., is_retracted=...)
ScoreConstruct ==
    /\ score_pc = "idle"
    /\ \E p \in PeerReviewValues, j \in JournalValues, c \in CitationValues,
          v \in VerificationValues, r \in RecencyValues, retracted \in BOOLEAN :
          score' = [NewReliabilityScore EXCEPT
                       !.peer_review = p, !.journal = j, !.citations = c,
                       !.verification = v, !.recency = r,
                       !.is_retracted = retracted]
    /\ score_pc' = "made"
    /\ UNCHANGED <<seen, exceptScore>>

\* score.contradictions.append(...)
ScoreContradict ==
    /\ score_pc = "made"
    /\ Len(score.contradictions) < MaxContradictions
    /\ score' = [score EXCEPT !.contradictions = Append(@, "contradiction")]
    /\ UNCHANGED <<score_pc, seen, exceptScore>>

\* score.total, score.level, score.color
ScoreRead ==
    /\ score_pc = "made"
    /\ seen' = [total |-> Total(score), level |-> Level(score),
                color |-> Color(score)]
    /\ score_pc' = "read"
    /\ UNCHANGED <<score, exceptScore>>

InitScore ==
    /\ pc = "idle"
    /\ DedupIdle
    /\ SearchIdle
    /\ OthersIdle

NextScore == ScoreCalculate \/ ScoreConstruct \/ ScoreContradict \/ ScoreRead

SpecScore == InitScore /\ [][NextScore]_vars

\* C9: reliability.total is the sum of the five components less 0.05 for each
\* contradiction, clamped to [0, 1]; the components are at most 0.30, 0.20,
\* 0.20, 0.20 and 0.10, which sum to at most 1.0; a retracted score has
\* total 0, level Low and color red
C9_TotalClamped ==
    score_pc = "read" =>
        LET raw == score.peer_review + score.journal + score.citations
                   + score.verification + score.recency
                   - 5 * Len(score.contradictions)
            clamped == IF raw < 0 THEN 0 ELSE IF raw > 100 THEN 100 ELSE raw
        IN  /\ score.peer_review \in 0..30
            /\ score.journal \in 0..20
            /\ score.citations \in 0..20
            /\ score.verification \in 0..20
            /\ score.recency \in 0..10
            /\ 30 + 20 + 20 + 20 + 10 <= 100
            /\ seen.total \in 0..100
            /\ ~score.is_retracted => seen.total = clamped
            /\ score.is_retracted =>
                  seen.total = 0 /\ seen.level = LOW /\ seen.color = "red"

\* a score whose contradictions outweigh its components was read
C9_Witness ==
    /\ score_pc = "read"
    /\ ~score.is_retracted
    /\ score.peer_review + score.journal + score.citations
       + score.verification + score.recency < 5 * Len(score.contradictions)
    /\ seen.total = 0

-----------------------------------------------------------------------------
\* the paginated adapters, search called on its own: adapters/*.py

\* bound: the most calls of _search_batch in one search
MaxBatches == 3

PaginatedAdapters ==
    {"Semantic Scholar", "arXiv", "OpenAlex", "CrossRef", "CORE", "Europe PMC"}

\* limit = min(100, max_results); OpenAlex: per_page = min(200, max_results)
BatchLimit(name, max_results) ==
    IF name = "OpenAlex" THEN Min(200, max_results) ELSE Min(100, max_results)

\* the adapters whose search sends its requests once, without a loop
SingleRequestAdapters == {"PubMed", "BASE"}

\* the arguments of the model
PageQueries == { <<>>, <<"b">> }
MaxResultsValues == {1, 2, 101, 250}

\* the papers _search_batch parsed from its b-th response, k of them
BatchOf(b, k) == [i \in 1..k |-> <<b, i>>]

\* how many papers a response asked for n can hold: the upstream may send
\* fewer than asked, as many, or more
BatchSizes(n) == {0, 1, n - 1, n, n + 1} \cap 0..(n + 1)

\* Err(f"Search failed: ...") and Err(f"Invalid response: ...")
BatchErrors == { Err("Search failed"), Err("Invalid response") }

\* nextCursorMark of a Europe PMC response: absent, or a mark
NextCursors == {"", "*", "c1", "c2"}

\* adapter.search(query, max_results), up to the loop
PageStart ==
    /\ page_pc = "idle"
    /\ \E name \in PaginatedAdapters \cup SingleRequestAdapters,
          q \in PageQueries, m \in MaxResultsValues :
          /\ page_adapter' = name
          /\ page_query' = q
          /\ page_max' = m
          /\ IF IsBlankQuery(q)
             THEN /\ page_result' = Err("Empty query")
                  /\ page_pc' = "returned"
                  /\ page_cursor' = page_cursor
             ELSE /\ page_result' = page_result
                  /\ page_pc' = "loop"
                  /\ page_cursor' = "*"
    /\ page_papers' = <<>>
    /\ UNCHANGED <<batches, exceptPage>>

\* a mutation: a failed batch fails the search, whatever was accumulated
OnBatchErrorFails(papers, batch) == batch

\* if batch.is_err: if papers: return Ok(papers); return batch
OnBatchError(papers, batch) == IF papers # <<>> THEN Ok(papers) ELSE batch

\* one iteration of `while len(papers) < max_results` of the adapters that
\* page by offset, start or page number
SearchBatch ==
    /\ page_pc = "loop"
    /\ page_adapter \in PaginatedAdapters \ {"Europe PMC"}
    /\ Len(page_papers) < page_max
    /\ Len(batches) < MaxBatches
    /\ LET limit == BatchLimit(page_adapter, page_max)
       IN  \E batch \in BatchErrors
                        \cup { Ok(BatchOf(Len(batches) + 1, k)) : k \in BatchSizes(limit) } :
              /\ batches' = Append(batches, batch)
              /\ IF ~batch.is_ok
                 THEN /\ page_result' = OnBatchError(page_papers, batch)
                      /\ page_pc' = "returned"
                      /\ page_papers' = page_papers
                 ELSE IF batch.value = <<>>
                 THEN /\ page_pc' = "break"
                      /\ UNCHANGED <<page_papers, page_result>>
                 ELSE /\ page_papers' = page_papers \o batch.value
                      /\ page_pc' = IF Len(batch.value) < limit THEN "break" ELSE "loop"
                      /\ page_result' = page_result
    /\ UNCHANGED <<page_adapter, page_query, page_max, page_cursor>>
    /\ UNCHANGED exceptPage

\* a mutation: the loop ends on an absent cursor only
CursorEndsOnAbsentOnly(next_cursor, cursor) == next_cursor = ""

\* if not next_cursor or next_cursor == cursor: break
CursorEnds(next_cursor, cursor) == next_cursor = "" \/ next_cursor = cursor

\* one iteration of `while len(papers) < max_results` of EuropePMCAdapter.search
EuropePMCSearchBatch ==
    /\ page_pc = "loop"
    /\ page_adapter = "Europe PMC"
    /\ Len(page_papers) < page_max
    /\ Len(batches) < MaxBatches
    /\ LET page_size == BatchLimit(page_adapter, page_max)
       IN  \E batch \in BatchErrors
                        \cup { Ok(<<BatchOf(Len(batches) + 1, k), c>>) :
                                  k \in BatchSizes(page_size), c \in NextCursors } :
              /\ batches' = Append(batches, batch)
              /\ IF ~batch.is_ok
                 THEN /\ page_result' = OnBatchError(page_papers, batch)
                      /\ page_pc' = "returned"
                      /\ UNCHANGED <<page_papers, page_cursor>>
                 ELSE LET results == batch.value[1]
                          next_cursor == batch.value[2]
                      IN  IF results = <<>>
                          THEN /\ page_pc' = "break"
                               /\ UNCHANGED <<page_papers, page_cursor, page_result>>
                          ELSE /\ page_papers' = page_papers \o results
                               /\ page_result' = page_result
                               /\ IF CursorEnds(next_cursor, page_cursor)
                                  THEN /\ page_pc' = "break"
                                       /\ page_cursor' = page_cursor
                                  ELSE /\ page_pc' = "loop"
                                       /\ page_cursor' = next_cursor
    /\ UNCHANGED <<page_adapter, page_query, page_max>>
    /\ UNCHANGED exceptPage

\* the loop is left: return Ok(papers[:max_results])
PageReturn ==
    /\ page_adapter \in PaginatedAdapters
    /\ \/ page_pc = "break"
       \/ page_pc = "loop" /\ ~(Len(page_papers) < page_max)
    /\ page_result' = Ok(Prefix(page_papers, page_max))
    /\ page_pc' = "returned"
    /\ UNCHANGED <<page_adapter, page_query, page_max, page_papers, page_cursor,
                   batches>>
    /\ UNCHANGED exceptPage

\* PubMedAdapter.search after the query check: _search_pmids, _fetch_details
PubMedSearch ==
    /\ page_pc = "loop"
    /\ page_adapter = "PubMed"
    /\ \E pmids_result \in {Err("Search failed"), Err("Invalid response")}
                            \cup { Ok(BatchOf(0, k)) : k \in BatchSizes(page_max) } :
          IF ~pmids_result.is_ok
          THEN /\ page_result' = Err(pmids_result.error)
               /\ page_papers' = page_papers
          ELSE IF pmids_result.value = <<>>
          THEN /\ page_result' = Ok(<<>>)
               /\ page_papers' = page_papers
          ELSE \E fetched \in {Err("Fetch failed"), Err("Invalid XML")}
                               \cup { Ok(BatchOf(1, k)) :
                                         k \in BatchSizes(Len(pmids_result.value)) } :
                  /\ page_result' = fetched
                  /\ page_papers' = IF fetched.is_ok THEN fetched.value
                                    ELSE page_papers
    /\ page_pc' = "returned"
    /\ UNCHANGED <<page_adapter, page_query, page_max, page_cursor, batches>>
    /\ UNCHANGED exceptPage

\* the most documents BASEAdapter.search asks for
BASEHits == 125

\* BASEAdapter.search after the query check
BASESearch ==
    /\ page_pc = "loop"
    /\ page_adapter = "BASE"
    /\ \E response \in {Err("Search failed"), Err("Invalid response")}
                         \cup { Ok(BatchOf(1, k)) :
                                   k \in BatchSizes(Min(page_max, BASEHits)) } :
          IF ~response.is_ok
          THEN /\ page_result' = response
               /\ page_papers' = page_papers
          ELSE /\ page_papers' = response.value
               /\ page_result' = Ok(Prefix(response.value, page_max))
    /\ page_pc' = "returned"
    /\ UNCHANGED <<page_adapter, page_query, page_max, page_cursor, batches>>
    /\ UNCHANGED exceptPage

InitAdapter ==
    /\ pc = "idle"
    /\ DedupIdle
    /\ SearchIdle
    /\ OthersIdle

NextAdapter ==
    \/ PageStart
    \/ SearchBatch
    \/ EuropePMCSearchBatch
    \/ PageReturn
    \/ PubMedSearch
    \/ BASESearch

SpecAdapter == InitAdapter /\ [][NextAdapter]_vars

\* the papers of the i-th batch, as the history holds them
BatchPapers(i) ==
    IF page_adapter = "Europe PMC" THEN batches[i].value[1] ELSE batches[i].value

RECURSIVE Accumulated(_)
\* the papers of the batches 1..n, in order
Accumulated(n) == IF n = 0 THEN <<>> ELSE Accumulated(n - 1) \o BatchPapers(n)

\* C10: the search of a paginated adapter returns the error of the first
\* batch when the first batch fails; when a later batch fails it returns a
\* success that carries exactly the papers of the batches before it
C10_PartialSuccess ==
    (page_pc = "returned" /\ batches # <<>>) =>
        LET n == Len(batches)
        IN  /\ \A i \in 1..(n - 1) : batches[i].is_ok
            /\ ~batches[1].is_ok => page_result = batches[1]
            /\ (n > 1 /\ ~batches[n].is_ok) =>
                  /\ page_result.is_ok
                  /\ page_result.value = Accumulated(n - 1)
                  /\ page_result.value # <<>>

\* the third batch of a CrossRef search failed after two full batches
C10_Witness ==
    /\ page_pc = "returned"
    /\ page_adapter = "CrossRef"
    /\ Len(batches) = 3
    /\ ~batches[3].is_ok
    /\ page_result.is_ok
    /\ Len(page_result.value) = 200

\* C11: the search of every adapter returns at most max_results papers,
\* whatever the upstream answers
C11_AtMostMaxResults ==
    (page_pc = "returned" /\ page_result.is_ok) =>
        Len(page_result.value) <= page_max

-----------------------------------------------------------------------------
\* get_by_id of every adapter: adapters/*.py
\* An id is a sequence of tokens; a prefix ("s2_", "10.", "W", "PMC") is one token.

\* the absent paper
None == "None"

IdPrefixes ==
    {"pubmed_", "s2_", "openalex_", "arxiv_", "crossref_", "core_", "europmc_"}

\* the ids get_by_id is called with
IdPool ==
    { <<>>, <<"7">>, <<"W", "1">>, <<"10.", "1/x">>, <<"PMC", "7">> }
    \cup { <<p, "7">> : p \in IdPrefixes }

\* what the upstream does with the one request
Upstreams == {"http error", "invalid body", "found", "absent"}

IdAdapters ==
    { "PubMed", "Semantic Scholar", "OpenAlex", "arXiv", "CrossRef", "CORE",
      "BASE", "Europe PMC", "Unpaywall" }

\* paper_id.startswith(prefix)
StartsWith(id, prefix) == id # <<>> /\ id[1] = prefix

\* paper_id.replace(prefix, "")
Replace(id, prefix) == SelectSeq(id, LAMBDA x : x # prefix)

\* what a get_by_id did: its result and the number of requests it sent
Returned0(r) == [result |-> r, requests |-> 0]
Returned1(r) == [result |-> r, requests |-> 1]

\* the paper the parser builds from the upstream's record of the id
Parsed(id, upstream) == IF upstream = "found" THEN Ok(<<"paper">> \o id) ELSE Ok(None)

\* the tail shared by Semantic Scholar, OpenAlex, CrossRef, CORE, Europe PMC:
\* a failed request is Ok(None), an undecodable body is an error
LookUp(id, upstream) ==
    IF upstream = "http error" THEN Returned1(Ok(None))
    ELSE IF upstream = "invalid body" THEN Returned1(Err("Invalid response"))
    ELSE Returned1(Parsed(id, upstream))

\* PubMedAdapter.get_by_id
PubMedGetById(id, upstream) ==
    IF id = <<>> THEN Returned0(Err("Empty ID"))
    ELSE LET pmid == Strip(Replace(id, "pubmed_"))
         IN  IF upstream = "http error" THEN Returned1(Err("Fetch failed"))
             ELSE IF upstream = "invalid body" THEN Returned1(Err("Invalid XML"))
             ELSE Returned1(Parsed(pmid, upstream))

\* SemanticScholarAdapter.get_by_id
SemanticScholarGetById(id, upstream) ==
    IF id = <<>> THEN Returned0(Err("Empty ID"))
    ELSE LET s2_id == IF StartsWith(id, "s2_") THEN Replace(id, "s2_") ELSE id
         IN  LookUp(s2_id, upstream)

\* OpenAlexAdapter.get_by_id
OpenAlexGetById(id, upstream) ==
    IF id = <<>> THEN Returned0(Err("Empty ID"))
    ELSE IF StartsWith(id, "openalex_") THEN LookUp(Replace(id, "openalex_"), upstream)
    ELSE IF StartsWith(id, "10.") THEN LookUp(<<"doi:">> \o id, upstream)
    ELSE IF StartsWith(id, "W") THEN LookUp(id, upstream)
    ELSE Returned0(Err("Invalid ID format"))

\* ArXivAdapter.get_by_id
ArXivGetById(id, upstream) ==
    IF id = <<>> THEN Returned0(Err("Empty ID"))
    ELSE LET arxiv_id == Strip(Replace(id, "arxiv_"))
         IN  IF upstream = "http error" THEN Returned1(Err("Failed"))
             ELSE IF upstream = "invalid body" THEN Returned1(Err("Invalid XML"))
             ELSE Returned1(Parsed(arxiv_id, upstream))

\* CrossRefAdapter.get_by_id
CrossRefGetById(id, upstream) ==
    IF id = <<>> THEN Returned0(Err("Empty ID"))
    ELSE IF StartsWith(id, "crossref_") THEN LookUp(Replace(id, "crossref_"), upstream)
    ELSE IF StartsWith(id, "10.") THEN LookUp(id, upstream)
    ELSE Returned0(Err("Invalid DOI format"))

\* COREAdapter.get_by_id
COREGetById(id, upstream) ==
    IF id = <<>> THEN Returned0(Err("Empty ID"))
    ELSE LookUp(Strip(Replace(id, "core_")), upstream)

\* EuropePMCAdapter.get_by_id
EuropePMCGetById(id, upstream) ==
    IF id = <<>> THEN Returned0(Err("Empty ID"))
    ELSE LookUp(Replace(id, "europmc_"), upstream)

\* BASEAdapter.get_by_id
BASEGetById(id, upstream) == Returned0(Ok(None))

\* UnpaywallAdapter.get_by_id
UnpaywallGetById(id, upstream) == Returned0(Ok(None))

\* adapter.get_by_id(paper_id)
get_by_id(name, id, upstream) ==
    CASE name = "PubMed" -> PubMedGetById(id, upstream)
      [] name = "Semantic Scholar" -> SemanticScholarGetById(id, upstream)
      [] name = "OpenAlex" -> OpenAlexGetById(id, upstream)
      [] name = "arXiv" -> ArXivGetById(id, upstream)
      [] name = "CrossRef" -> CrossRefGetById(id, upstream)
      [] name = "CORE" -> COREGetById(id, upstream)
      [] name = "BASE" -> BASEGetById(id, upstream)
      [] name = "Europe PMC" -> EuropePMCGetById(id, upstream)
      [] name = "Unpaywall" -> UnpaywallGetById(id, upstream)

\* a caller picks an adapter and an id
IdCall ==
    /\ id_pc = "idle"
    /\ \E name \in IdAdapters, id \in IdPool :
          /\ id_adapter' = name
          /\ paper_id' = id
    /\ id_pc' = "called"
    /\ UNCHANGED <<id_requests, id_result>>
    /\ UNCHANGED exceptId

\* the call runs to its return
GetById ==
    /\ id_pc = "called"
    /\ \E upstream \in Upstreams :
          LET done == get_by_id(id_adapter, paper_id, upstream)
          IN  /\ id_result' = done.result
              /\ id_requests' = done.requests
    /\ id_pc' = "returned"
    /\ UNCHANGED <<id_adapter, paper_id>>
    /\ UNCHANGED exceptId

InitGetById ==
    /\ pc = "idle"
    /\ DedupIdle
    /\ SearchIdle
    /\ OthersIdle

NextGetById == IdCall \/ GetById

SpecGetById == InitGetById /\ [][NextGetById]_vars

\* C12: get_by_id of every adapter, called with the empty id, returns an
\* error and sends no HTTP request
C12_EmptyIdIsError ==
    (id_pc = "returned" /\ paper_id = <<>>) =>
        ~id_result.is_ok /\ id_requests = 0

\* C13: the papers search returns are exactly the ranked papers that pass
\* every configured filter, in non-increasing relevance_score order: a year
\* inside the inclusive range when year_start or year_end is set (papers
\* without a year dropped), reliability total >= min_reliability, and no
\* preprint when include_preprints is false
C13_FilteredAndRanked ==
    (pc = "done" /\ result.is_ok) =>
        LET returned == result.value.papers
            keeps(o) ==
                /\ config.year_start # NoYear =>
                      heap[o].year # NoYear /\ heap[o].year >= config.year_start
                /\ config.year_end # NoYear =>
                      heap[o].year # NoYear /\ heap[o].year <= config.year_end
                /\ reliability_score(heap[o]) >= config.min_reliability
                /\ ~config.include_preprints => heap[o].source_type # PREPRINT
        IN  /\ returned = SelectSeq(unique, keeps)
            /\ \A i, j \in DOMAIN unique :
                  i < j => heap[unique[i]].relevance_score
                           >= heap[unique[j]].relevance_score
            /\ \A i, j \in DOMAIN returned :
                  i < j => heap[returned[i]].relevance_score
                           >= heap[returned[j]].relevance_score

\* a filtered search kept a paper of the last year of the range and dropped
\* another paper
C13_Witness ==
    /\ pc = "done"
    /\ result.is_ok
    /\ config.year_end # NoYear
    /\ Len(unique) = 2
    /\ Len(result.value.papers) = 1
    /\ heap[result.value.papers[1]].year = config.year_end

-----------------------------------------------------------------------------
\* The token bucket: utils/rate_limiter.py
\* Exact arithmetic: a token is TokenUnits units, and the clock ticks once
\* per unit refilled, so a bucket of rate r (in hundredths of a request per
\* second) ticks r times a second: capacity r / 100 tokens is r units,
\* elapsed * refill_rate is the number of ticks elapsed, and the wait
\* (1 - tokens) / refill_rate is TokenUnits - tokens ticks.

\* 1.0 token, in units
TokenUnits == 100

\* bound: the number of calls of take() and wait() on one limiter
MaxCalls == 5

\* requests_per_second, in hundredths: Semantic Scholar without a key, arXiv, PubMed
Rates == {33, 100, 300}

\* how long after the previous call a caller calls, and by how much a sleep
\* overshoots, in ticks
Delays == {0, 50}
Overshoots == {0, 1}

\* TokenBucket.__init__(requests_per_second), at time now
NewTokenBucket(requests_per_second, now) ==
    [ capacity |-> requests_per_second, tokens |-> requests_per_second,
      refill_rate |-> requests_per_second, last_refill |-> now ]

\* a mutation: the refill is not capped at the capacity
RefillUncapped(b, now) ==
    [b EXCEPT !.tokens = b.tokens + (now - b.last_refill), !.last_refill = now]

\* TokenBucket.refill, at time now
Refill(b, now) ==
    [b EXCEPT !.tokens = Min(b.capacity, b.tokens + (now - b.last_refill)),
              !.last_refill = now]

\* TokenBucket.take, at time now: the bucket after it and the wait it returns
Take(b, now) ==
    LET r == Refill(b, now)
    IN  IF r.tokens >= TokenUnits
        THEN [bucket |-> [r EXCEPT !.tokens = r.tokens - TokenUnits], wait_time |-> 0]
        ELSE [bucket |-> r, wait_time |-> TokenUnits - r.tokens]

\* RateLimiter(requests_per_second)
LimiterNew ==
    /\ limiter_pc = "idle"
    /\ \E r \in Rates : bucket' = NewTokenBucket(r, clock)
    /\ limiter_pc' = "ready"
    /\ UNCHANGED <<clock, calls, took, releases>>
    /\ UNCHANGED exceptLimiter

\* bucket.take() by a caller that does not sleep
BucketTake ==
    /\ limiter_pc = "ready"
    /\ calls < MaxCalls
    /\ \E d \in Delays :
          LET now == clock + d
              taken == Take(bucket, now)
          IN  /\ bucket' = taken.bucket
              /\ clock' = now
              /\ took' = [before |-> bucket, now |-> now, wait_time |-> taken.wait_time]
    /\ calls' = calls + 1
    /\ UNCHANGED <<limiter_pc, releases>>
    /\ UNCHANGED exceptLimiter

\* RateLimiter.wait(): take, sleep for the wait, return; the request follows
LimiterWait ==
    /\ limiter_pc = "ready"
    /\ calls < MaxCalls
    /\ \E d \in Delays, over \in Overshoots :
          LET now == clock + d
              taken == Take(bucket, now)
              woke == IF taken.wait_time > 0 THEN now + taken.wait_time + over
                      ELSE now
          IN  /\ bucket' = taken.bucket
              /\ clock' = woke
              /\ took' = [before |-> bucket, now |-> now, wait_time |-> taken.wait_time]
              /\ releases' = Append(releases, woke)
    /\ calls' = calls + 1
    /\ UNCHANGED limiter_pc
    /\ UNCHANGED exceptLimiter

InitLimiter ==
    /\ pc = "idle"
    /\ DedupIdle
    /\ SearchIdle
    /\ OthersIdle

NextLimiter == LimiterNew \/ BucketTake \/ LimiterWait

SpecLimiter == InitLimiter /\ [][NextLimiter]_vars

\* C14: each take() first refills tokens to min(capacity, tokens + elapsed *
\* refill_rate); then if tokens >= 1 it subtracts exactly 1 and returns 0,
\* otherwise it returns (1 - tokens) / refill_rate and leaves the tokens; after
\* every take 0 <= tokens <= capacity
C14_TakeRefillsThenTakes ==
    took # <<>> =>
        LET raised == took.before.tokens + (took.now - took.before.last_refill)
            refilled == IF raised > took.before.capacity THEN took.before.capacity
                        ELSE raised
        IN  /\ bucket.last_refill = took.now
            /\ refilled >= TokenUnits =>
                  bucket.tokens = refilled - TokenUnits /\ took.wait_time = 0
            /\ refilled < TokenUnits =>
                  bucket.tokens = refilled /\ took.wait_time = TokenUnits - refilled
            /\ 0 <= bucket.tokens
            /\ bucket.tokens <= bucket.capacity

\* a take() took a token from a bucket refilled to its capacity
C14_Witness ==
    /\ took # <<>>
    /\ took.before.tokens < TokenUnits
    /\ took.wait_time = 0
    /\ bucket.tokens = bucket.capacity - TokenUnits

\* C15: over any interval of T seconds no more than capacity + R * T
\* requests pass the limiter. Stated with a burst of at least one request,
\* which a limiter that emits at exactly rate R meets at every rate: between
\* the i-th and the j-th return of wait(),
\* (j - i + 1) tokens <= max(capacity, 1 token) + the ticks elapsed
C15_EmittedAtRate ==
    \A i, j \in DOMAIN releases :
        i <= j =>
            (j - i + 1) * TokenUnits
                <= Max(bucket.capacity, TokenUnits) + (releases[j] - releases[i])

\* the phases whose start and completion are announced
Phases == {"Search", "Citations", "Process"}

\* a phase that announced its start announces its completion later
PhasesStartAndComplete ==
    \A phase \in Phases :
        (\E i \in DOMAIN events :
            events[i].phase = phase /\ events[i].status = "running") =>
        (\E i, j \in DOMAIN events :
            /\ i < j
            /\ events[i].phase = phase /\ events[i].status = "running"
            /\ events[j].phase = phase /\ events[j].status = "complete")

\* each adapter's running event is followed at once by its one complete or
\* error event, and the last event is ("Complete", "", "complete")
AdapterEventsPaired ==
    /\ \A i \in DOMAIN events :
          (events[i].phase = "Search" /\ events[i].source # "") =>
              IF events[i].status = "running"
              THEN /\ i < Len(events)
                   /\ events[i + 1].phase = "Search"
                   /\ events[i + 1].source = events[i].source
                   /\ events[i + 1].status \in {"complete", "error"}
              ELSE /\ events[i - 1].phase = "Search"
                   /\ events[i - 1].source = events[i].source
                   /\ events[i - 1].status = "running"
    /\ (pc = "done" /\ result.is_ok) =>
          events[Len(events)] = ProgressUpdate("Complete", "", "complete")

\* C16: in a finished successful search every phase that ran announced its
\* start and then its completion, every adapter's running event is followed by
\* exactly one complete or error event of that adapter before the next
\* adapter's events, and the last event is phase Complete, status complete
C16_ProgressEvents ==
    (pc = "done" /\ result.is_ok) =>
        PhasesStartAndComplete /\ AdapterEventsPaired

-----------------------------------------------------------------------------
(* backend/app.py: search_stream, the route /api/search/stream.  Each request
   builds its own queue and holders; the orchestrator, and with it the
   progress callback, is the one global object of get_orchestrator(). *)

\* bound: the progress updates one search notifies
MaxUpdates == 2

\* data.get("query", ""), already stripped: empty or not
StreamQueries == { <<>>, <<"b">> }

\* the item run_search puts on the queue when orch.search has returned
Sentinel == [type |-> "None"]

\* on_progress(update): the item put on the queue
ProgressItem(update) == [type |-> "progress", update |-> update]

\* the events generate() yields after thread.join()
ResultEvent(data) == [type |-> "result", data |-> data]
ErrorEvent(error) == [type |-> "error", error |-> error]

\* search_stream up to "return Response(generate(), ...)"
SearchStream(s) ==
    /\ stream_pc[s] = "idle"
    /\ \E q \in StreamQueries :
          stream_pc' = [stream_pc EXCEPT ![s] =
                            IF q = <<>> THEN "rejected" ELSE "response"]
    /\ UNCHANGED <<thread_pc, progress_callback, progress_queue, result_holder,
                   error_holder, emitted, stream_out>>
    /\ UNCHANGED exceptStream

\* generate(), from its first line to thread.start()
Generate(s) ==
    /\ stream_pc[s] = "response"
    /\ progress_callback' = s
    /\ thread_pc' = [thread_pc EXCEPT ![s] = "running"]
    /\ stream_pc' = [stream_pc EXCEPT ![s] = "get"]
    /\ UNCHANGED <<progress_queue, result_holder, error_holder, emitted,
                   stream_out>>
    /\ UNCHANGED exceptStream

\* orch.search in the thread of request s calls self._notify(...): the
\* callback that is set now puts the update on the queue it closes over
RunSearchNotify(s) ==
    /\ thread_pc[s] = "running"
    /\ Len(emitted[s]) < MaxUpdates
    /\ LET update == [search |-> s, n |-> Len(emitted[s]) + 1]
       IN /\ emitted' = [emitted EXCEPT ![s] = Append(@, update)]
          /\ progress_queue' =
                IF progress_callback = 0 THEN progress_queue
                ELSE [progress_queue EXCEPT ![progress_callback] =
                          Append(@, ProgressItem(update))]
    /\ UNCHANGED <<stream_pc, thread_pc, progress_callback, result_holder,
                   error_holder, stream_out>>
    /\ UNCHANGED exceptStream

\* run_search: orch.search returned; the query is not blank, so it is an Ok
RunSearchReturn(s) ==
    /\ thread_pc[s] = "running"
    /\ result_holder' = [result_holder EXCEPT ![s] = <<"SearchResult">>]
    /\ progress_queue' = [progress_queue EXCEPT ![s] = Append(@, Sentinel)]
    /\ thread_pc' = [thread_pc EXCEPT ![s] = "finished"]
    /\ UNCHANGED <<stream_pc, progress_callback, error_holder, emitted,
                   stream_out>>
    /\ UNCHANGED exceptStream

\* run_search: orch.search raised (a maxPerSource that is not a number makes
\* min(100, max_results) raise TypeError); the thread ends where it is
RunSearchRaise(s) ==
    /\ thread_pc[s] = "running"
    /\ thread_pc' = [thread_pc EXCEPT ![s] = "died"]
    /\ UNCHANGED <<stream_pc, progress_callback, progress_queue, result_holder,
                   error_holder, emitted, stream_out>>
    /\ UNCHANGED exceptStream

\* generate(): item = progress_queue.get(), which blocks on an empty queue
GenerateGet(s) ==
    /\ stream_pc[s] = "get"
    /\ progress_queue[s] # <<>>
    /\ LET item == Head(progress_queue[s])
       IN IF item = Sentinel
          THEN /\ stream_pc' = [stream_pc EXCEPT ![s] = "join"]
               /\ stream_out' = stream_out
          ELSE /\ stream_pc' = stream_pc
               /\ stream_out' = [stream_out EXCEPT ![s] = Append(@, item)]
    /\ progress_queue' = [progress_queue EXCEPT ![s] = Tail(@)]
    /\ UNCHANGED <<thread_pc, progress_callback, result_holder, error_holder,
                   emitted>>
    /\ UNCHANGED exceptStream

\* generate(): thread.join(), then the result or the error event
GenerateJoin(s) ==
    /\ stream_pc[s] = "join"
    /\ thread_pc[s] \in {"finished", "died"}
    /\ stream_out' =
          [stream_out EXCEPT ![s] =
              IF result_holder[s] # <<>>
              THEN Append(@, ResultEvent(result_holder[s][1]))
              ELSE IF error_holder[s] # <<>>
              THEN Append(@, ErrorEvent(error_holder[s][1]))
              ELSE @]
    /\ stream_pc' = [stream_pc EXCEPT ![s] = "ended"]
    /\ UNCHANGED <<thread_pc, progress_callback, progress_queue, result_holder,
                   error_holder, emitted>>
    /\ UNCHANGED exceptStream

InitStream ==
    /\ pc = "idle"
    /\ DedupIdle
    /\ SearchIdle
    /\ OthersIdle

NextStream ==
    \/ \E s \in Streams : SearchStream(s)
    \/ \E s \in Streams : Generate(s)
    \/ \E s \in Streams : RunSearchNotify(s)
    \/ \E s \in Streams : RunSearchReturn(s)
    \/ \E s \in Streams : RunSearchRaise(s)
    \/ \E s \in Streams : GenerateGet(s)
    \/ \E s \in Streams : GenerateJoin(s)

\* the server keeps iterating a response's generator, and a started thread
\* keeps running
StreamFairness ==
    \A s \in Streams :
        /\ WF_vars(Generate(s))
        /\ WF_vars(GenerateGet(s))
        /\ WF_vars(GenerateJoin(s))
        /\ WF_vars(RunSearchNotify(s))
        /\ WF_vars(RunSearchReturn(s) \/ RunSearchRaise(s))

SpecStream == InitStream /\ [][NextStream]_vars /\ StreamFairness

\* what the stream of request s has to have delivered when it has ended: the
\* updates of its own search, in order, then one terminal event
DeliveredInOrder(s) ==
    /\ Len(stream_out[s]) = Len(emitted[s]) + 1
    /\ \A k \in 1..Len(emitted[s]) :
          stream_out[s][k] = ProgressItem(emitted[s][k])
    /\ stream_out[s][Len(stream_out[s])].type \in {"result", "error"}

\* C17: every /search/stream response that has ended delivered the progress
\* events of its search in the order they were emitted and then exactly one
\* terminal event, and every response that was started does end
C17_StreamDeliversAndEnds ==
    /\ [](\A s \in Streams : stream_pc[s] = "ended" => DeliveredInOrder(s))
    /\ \A s \in Streams : (stream_pc[s] = "response") ~> (stream_pc[s] = "ended")

\* the part that holds: a stream yields nothing after its terminal event
\* and never ends without one
TerminalIsLast ==
    \A s \in Streams :
        /\ \A k \in DOMAIN stream_out[s] :
              stream_out[s][k].type \in {"result", "error"} =>
                  k = Len(stream_out[s]) /\ stream_pc[s] = "ended"
        /\ stream_pc[s] = "ended" =>
              /\ stream_out[s] # <<>>
              /\ stream_out[s][Len(stream_out[s])].type \in {"result", "error"}

-----------------------------------------------------------------------------
(* backend/adapters/unpaywall.py: find_open_access, enrich_paper.  A paper is
   here the fields enrich_paper reads or writes; urls is the dict, with <<>>
   under a key it does not hold. *)

NoUrls == [doi |-> <<>>, pdf |-> <<>>, oa_html |-> <<>>]

\* find_open_access's Ok(None)
NoData == [none |-> TRUE]

\* the papers handed to enrich_paper
EnrichPapers ==
    [ doi : { <<>>, <<"1">> },
      access_type : {OPEN, PAYWALLED, UNKNOWN_ACCESS},
      pdf_url : { <<>>, <<"p">> },
      html_url : { <<>>, <<"h">> },
      urls : { NoUrls, [NoUrls EXCEPT !.doi = <<"d">>] } ]

\* "best_oa_location": null in the JSON
NoLocation == [url_for_pdf |-> <<>>, url |-> <<>>, absent |-> TRUE]

\* what self.client.get(url) and response.json() come back with
OAResponses ==
    { [is_err |-> TRUE, json_err |-> FALSE, is_oa |-> FALSE,
       best_oa_location |-> NoLocation],
      [is_err |-> FALSE, json_err |-> TRUE, is_oa |-> FALSE,
       best_oa_location |-> NoLocation] }
    \cup
    [ is_err : {FALSE}, json_err : {FALSE}, is_oa : BOOLEAN,
      best_oa_location :
          {NoLocation} \cup
          [url_for_pdf : { <<>>, <<"q">> }, url : { <<>>, <<"u">> },
           absent : {FALSE}] ]

\* safe_get(d, key, None) on best_oa_location
safe_get(location, key) ==
    IF location.absent THEN <<>>
    ELSE IF key = "url_for_pdf" THEN location.url_for_pdf
    ELSE location.url

\* UnpaywallAdapter.find_open_access(doi), given what the request returns
find_open_access(doi, response) ==
    IF doi = <<>> THEN Err("Empty DOI")
    ELSE IF response.is_err THEN Ok(NoData)
    ELSE IF response.json_err THEN Ok(NoData)
    ELSE Ok([ is_oa |-> response.is_oa,
              pdf_url |-> safe_get(response.best_oa_location, "url_for_pdf"),
              html_url |-> safe_get(response.best_oa_location, "url") ])

\* paper.urls[key] = value
SetUrl(urls, key, value) == [urls EXCEPT ![key] = value]

\* fill if absent: the url the paper has, else the one Unpaywall reports
KeepOrFill(old, new) == IF old # <<>> THEN old ELSE new

\* "if pdf_url: paper.pdf_url = pdf_url": the reported url is written
Fill(old, new) == new

\* UnpaywallAdapter.enrich_paper(paper), given what the request returns
enrich_paper(paper, response) ==
    IF paper.doi = <<>> THEN paper
    ELSE LET oa_result == find_open_access(paper.doi, response)
         IN IF ~oa_result.is_ok THEN paper
            ELSE IF oa_result.value = NoData THEN paper
            ELSE LET oa_data == oa_result.value
                 IN IF ~oa_data.is_oa THEN paper
                    ELSE LET opened == [paper EXCEPT !.access_type = OPEN]
                             with_pdf ==
                                 IF oa_data.pdf_url # <<>>
                                 THEN [opened EXCEPT
                                         !.pdf_url = Fill(@, oa_data.pdf_url),
                                         !.urls = SetUrl(@, "pdf", oa_data.pdf_url)]
                                 ELSE opened
                         IN IF oa_data.html_url # <<>>
                            THEN [with_pdf EXCEPT
                                    !.html_url = Fill(@, oa_data.html_url),
                                    !.urls = SetUrl(@, "oa_html", oa_data.html_url)]
                            ELSE with_pdf

\* a caller hands a paper to enrich_paper
EnrichCall ==
    /\ enrich_pc = "idle"
    /\ \E paper \in EnrichPapers : enrich_in' = paper
    /\ enrich_pc' = "called"
    /\ UNCHANGED <<oa_response, enriched>>
    /\ UNCHANGED exceptEnrich

\* enrich_paper runs to its return
EnrichPaper ==
    /\ enrich_pc = "called"
    /\ \E response \in OAResponses :
          /\ oa_response' = response
          /\ enriched' = enrich_paper(enrich_in, response)
    /\ enrich_pc' = "returned"
    /\ UNCHANGED enrich_in
    /\ UNCHANGED exceptEnrich

InitEnrich ==
    /\ pc = "idle"
    /\ DedupIdle
    /\ SearchIdle
    /\ OthersIdle

NextEnrich == EnrichCall \/ EnrichPaper

SpecEnrich == InitEnrich /\ [][NextEnrich]_vars

\* the lookup told that the paper is open access
IsOA ==
    /\ enrich_in.doi # <<>>
    /\ ~oa_response.is_err
    /\ ~oa_response.json_err
    /\ oa_response.is_oa

\* C18: enrich_paper returns the paper unchanged when it has no DOI, when the
\* lookup fails or when is_oa is false; when is_oa is true the access type is
\* Open and pdf_url and html_url are the paper's own where it had one and the
\* best OA location's where it had none
C18_NeverDowngrades ==
    enrich_pc = "returned" =>
        IF IsOA
        THEN /\ enriched.access_type = OPEN
             /\ enriched.pdf_url =
                    KeepOrFill(enrich_in.pdf_url,
                               safe_get(oa_response.best_oa_location, "url_for_pdf"))
             /\ enriched.html_url =
                    KeepOrFill(enrich_in.html_url,
                               safe_get(oa_response.best_oa_location, "url"))
        ELSE enriched = enrich_in

\* the part that holds: nothing is lost; without open access the paper is
\* unchanged, with it the access type is Open and a url is only ever replaced
\* by a url
NothingRemoved ==
    enrich_pc = "returned" =>
        /\ ~IsOA => enriched = enrich_in
        /\ IsOA => enriched.access_type = OPEN
        /\ enrich_in.pdf_url # <<>> => enriched.pdf_url # <<>>
        /\ enrich_in.html_url # <<>> => enriched.html_url # <<>>
        /\ \A k \in DOMAIN enrich_in.urls :
              enrich_in.urls[k] # <<>> => enriched.urls[k] # <<>>

-----------------------------------------------------------------------------
(* _deduplicate again: what the four maps point at, and which key merges *)

\* the records the four maps of _deduplicate point at
MapTargets ==
    Range(by_doi) \cup Range(by_pmid) \cup Range(by_arxiv) \cup Range(by_title)

\* C19: after every iteration of _deduplicate each value stored in the DOI,
\* PMID, arXiv and title maps is a member of the unique list, and every
\* record that absorbed an incoming record is a member of the unique list
C19_MapsHoldSurvivors ==
    /\ MapTargets \subseteq Survivors
    /\ \A s \in DOMAIN merged_into : merged_into[s] # {} => s \in Survivors

\* C20: when _deduplicate has returned, two papers of its input that have the
\* same normalized title and different DOIs are two separate records of the
\* output: neither was merged into anything
C20_DifferentDoiNotMerged ==
    Returned =>
        \A a, b \in Range(dedup_in) :
            ( /\ a # b
              /\ arrived[a].doi # <<>>
              /\ arrived[b].doi # <<>>
              /\ DoiKey(arrived[a].doi) # DoiKey(arrived[b].doi)
              /\ NormalizeTitle(arrived[a].title) = NormalizeTitle(arrived[b].title) )
            => {a, b} \subseteq Survivors

-----------------------------------------------------------------------------
(* _deduplicate on the same records in another order: the adapters' lists are
   concatenated in the order of self.adapters, so another order of the
   adapters is another order of the same records *)

\* the orders in which n records can arrive
Orders(n) ==
    { p \in [1..n -> 1..n] : \A i, j \in 1..n : i # j => p[i] # p[j] }

\* _deduplicate applied to the records of the first call, fresh from the
\* adapters again, in another order
DedupPermuted ==
    /\ pc = "deduped"
    /\ run = 1
    /\ first_out' = [unique |-> unique, heap |-> heap]
    /\ run' = 3
    /\ pc' = "dedup"
    /\ heap' = arrived
    /\ merged_into' = [i \in 1..Len(arrived) |-> {}]
    /\ \E p \in Orders(Len(arrived)) : DedupEnter(p)
    /\ UNCHANGED arrived
    /\ UNCHANGED searchVars
    /\ UNCHANGED otherVars

NextDedupOrder == DedupStep \/ DedupReturn \/ DedupPermuted

SpecDedupOrder == InitDedup /\ [][NextDedupOrder]_vars

\* what the claim observes of a surviving paper
Observed(paper) ==
    [ sources_found_in |-> Range(paper.sources_found_in),
      citation_count |-> paper.citation_count,
      doi |-> paper.doi, pmid |-> paper.pmid, arxiv_id |-> paper.arxiv_id,
      access_type |-> paper.access_type ]

\* C21: _deduplicate applied to a permutation of the same input papers returns
\* as many papers as it did for the first order, and the survivors carry the
\* same sourcesFoundIn sets, citation counts, identifiers and access types
C21_OrderIndependent ==
    (Returned /\ run = 3) =>
        /\ Len(unique) = Len(first_out.unique)
        /\ { Observed(heap[s]) : s \in Survivors }
              = { Observed(first_out.heap[s]) : s \in Range(first_out.unique) }

\* C22: when _deduplicate has returned, every non-empty doi, pmid and arxiv_id
\* carried by a paper of the input is carried, compared as the maps compare
\* them, by some paper of the returned list
C22_IdentifiersKept ==
    (Returned /\ run = 1) =>
        \A r \in DOMAIN arrived :
            /\ arrived[r].doi # <<>> =>
                  \E s \in Survivors :
                      /\ heap[s].doi # <<>>
                      /\ DoiKey(heap[s].doi) = DoiKey(arrived[r].doi)
            /\ arrived[r].pmid # <<>> =>
                  \E s \in Survivors :
                      /\ heap[s].pmid # <<>>
                      /\ PmidKey(heap[s].pmid) = PmidKey(arrived[r].pmid)
            /\ arrived[r].arxiv_id # <<>> =>
                  \E s \in Survivors :
                      /\ heap[s].arxiv_id # <<>>
                      /\ ArxivKey(heap[s].arxiv_id) = ArxivKey(arrived[r].arxiv_id)

-----------------------------------------------------------------------------
(* The pipeline after deduplication: re-score, rank *)

\* the verification component, in hundredths, the claim gives for n sources
VerificationTier(n) ==
    IF n >= 5 THEN 20 ELSE IF n >= 3 THEN 15 ELSE IF n >= 2 THEN 10 ELSE 5

\* C23: every paper of the final list of a successful search has the
\* verification component of the tier of its final sourcesFoundIn size, and
\* its relevance score is the one computed from the reliability it now has
C23_RescoredAfterMerge ==
    (pc = "done" /\ result.is_ok) =>
        \A o \in Range(result.value.papers) :
            /\ heap[o].reliability.verification
                  = VerificationTier(Len(heap[o].sources_found_in))
            /\ heap[o].relevance_score
                  = Relevance(heap[o], Range(Split(NormalizeTitle(query))))

\* C23 happens: a paper of the final list was found in two sources, or more,
\* and records merged into it
C23_Witness ==
    /\ pc = "done"
    /\ result.is_ok
    /\ \E o \in Range(result.value.papers) :
          /\ Len(heap[o].sources_found_in) >= 2
          /\ merged_into[o] # {}
          /\ heap[o].reliability.verification = 10

-----------------------------------------------------------------------------
(* Phase 2 of search: citation expansion *)

\* the papers of phase 1 that were not selected for expansion
Unselected == DOMAIN heap \ Range(top_papers)

\* the selection and the amounts: what phase 2 takes and keeps
ExpansionBounded ==
    /\ pc = "citations" => config.expand_citations /\ heap # <<>>
    /\ citation_papers # <<>> => config.expand_citations
    /\ pc \in {"citations", "raised"} =>
          /\ Len(top_papers) <= TopCited
          /\ \A i \in DOMAIN top_papers : heap[top_papers[i]].citation_count > 0
          /\ \A i \in DOMAIN top_papers : \A u \in Unselected :
                heap[top_papers[i]].citation_count >= heap[u].citation_count
          /\ Len(citation_papers) <= 2 * KeptPerCall * cite_i
    /\ Len(citation_papers) <= 2 * KeptPerCall * TopCited

\* C24: citation expansion runs only when expand_citations is set and phase 1
\* found a paper; it selects at most 20 papers, all cited and none cited less
\* than an unselected paper, keeps at most 5 citing and 5 referenced papers
\* for each; and no get_citations or get_references call that fails ends the
\* search or the expansion of the papers still to come
C24_CitationExpansion ==
    /\ ExpansionBounded
    /\ pc # "raised"

-----------------------------------------------------------------------------
(* utils/rate_limiter.py, called by several threads: the orchestrator of
   app.py is one global object, so its adapters, their clients and their
   limiters are shared by the requests a threaded server handles at once.
   There is no lock in TokenBucket or RateLimiter; a thread can be preempted
   between any two reads and writes of the bucket's attributes. *)

\* bound: the calls of wait() one thread makes
MaxWaits == 2

\* bound: how far time.time() advances by itself, and by how much at once
MaxWall == 100
TickStep == 50

\* RateLimiter(requests_per_second), once, before the threads
RaceNew ==
    /\ shared_bucket = <<>>
    /\ \E r \in Rates : shared_bucket' = NewTokenBucket(r, wall)
    /\ UNCHANGED <<wall, caller_pc, caller_now, caller_val, entered, grants>>
    /\ UNCHANGED exceptRace

\* time passes
RaceTick ==
    /\ shared_bucket # <<>>
    /\ wall + TickStep <= MaxWall
    /\ wall' = wall + TickStep
    /\ UNCHANGED <<shared_bucket, caller_pc, caller_now, caller_val, entered, grants>>
    /\ UNCHANGED exceptRace

\* wait() -> take() -> refill(): now = time.time()
RefillNow(c) ==
    /\ shared_bucket # <<>>
    /\ caller_pc[c] = "idle"
    /\ entered[c] < MaxWaits
    /\ entered' = [entered EXCEPT ![c] = @ + 1]
    /\ caller_now' = [caller_now EXCEPT ![c] = wall]
    /\ caller_pc' = [caller_pc EXCEPT ![c] = "elapsed"]
    /\ UNCHANGED <<shared_bucket, wall, caller_val, grants>>
    /\ UNCHANGED exceptRace

\* refill(): elapsed = now - self.last_refill
RefillElapsed(c) ==
    /\ caller_pc[c] = "elapsed"
    /\ caller_val' = [caller_val EXCEPT ![c] = caller_now[c] - shared_bucket.last_refill]
    /\ caller_pc' = [caller_pc EXCEPT ![c] = "refill"]
    /\ UNCHANGED <<shared_bucket, wall, caller_now, entered, grants>>
    /\ UNCHANGED exceptRace

\* refill(): min(self.capacity, self.tokens + elapsed * self.refill_rate),
\* the right-hand side
RefillCompute(c) ==
    /\ caller_pc[c] = "refill"
    /\ caller_val' = [caller_val EXCEPT ![c] =
                         Min(shared_bucket.capacity, shared_bucket.tokens + @)]
    /\ caller_pc' = [caller_pc EXCEPT ![c] = "store"]
    /\ UNCHANGED <<shared_bucket, wall, caller_now, entered, grants>>
    /\ UNCHANGED exceptRace

\* refill(): self.tokens = ..., the store
RefillStore(c) ==
    /\ caller_pc[c] = "store"
    /\ shared_bucket' = [shared_bucket EXCEPT !.tokens = caller_val[c]]
    /\ caller_pc' = [caller_pc EXCEPT ![c] = "stamp"]
    /\ UNCHANGED <<wall, caller_now, caller_val, entered, grants>>
    /\ UNCHANGED exceptRace

\* refill(): self.last_refill = now
RefillStamp(c) ==
    /\ caller_pc[c] = "stamp"
    /\ shared_bucket' = [shared_bucket EXCEPT !.last_refill = caller_now[c]]
    /\ caller_pc' = [caller_pc EXCEPT ![c] = "test"]
    /\ UNCHANGED <<wall, caller_now, caller_val, entered, grants>>
    /\ UNCHANGED exceptRace

\* take(): if self.tokens >= 1.0
TakeTest(c) ==
    /\ caller_pc[c] = "test"
    /\ caller_pc' = [caller_pc EXCEPT ![c] =
                        IF shared_bucket.tokens >= TokenUnits THEN "load" ELSE "short"]
    /\ UNCHANGED <<shared_bucket, wall, caller_now, caller_val, entered, grants>>
    /\ UNCHANGED exceptRace

\* take(): self.tokens -= 1.0, the load and the subtraction
TakeLoad(c) ==
    /\ caller_pc[c] = "load"
    /\ caller_val' = [caller_val EXCEPT ![c] = shared_bucket.tokens - TokenUnits]
    /\ caller_pc' = [caller_pc EXCEPT ![c] = "decrement"]
    /\ UNCHANGED <<shared_bucket, wall, caller_now, entered, grants>>
    /\ UNCHANGED exceptRace

\* take(): self.tokens -= 1.0, the store; return 0.0, and wait() returns
TakeStore(c) ==
    /\ caller_pc[c] = "decrement"
    /\ shared_bucket' = [shared_bucket EXCEPT !.tokens = caller_val[c]]
    /\ grants' = grants + 1
    /\ caller_pc' = [caller_pc EXCEPT ![c] = "idle"]
    /\ UNCHANGED <<wall, caller_now, caller_val, entered>>
    /\ UNCHANGED exceptRace

\* take(): wait_time = (1.0 - self.tokens) / self.refill_rate; return wait_time
TakeShort(c) ==
    /\ caller_pc[c] = "short"
    /\ caller_val' = [caller_val EXCEPT ![c] = TokenUnits - shared_bucket.tokens]
    /\ caller_pc' = [caller_pc EXCEPT ![c] = "sleep"]
    /\ UNCHANGED <<shared_bucket, wall, caller_now, entered, grants>>
    /\ UNCHANGED exceptRace

\* wait(): if wait_time > 0: time.sleep(wait_time); the thread wakes
WaitSleep(c) ==
    /\ caller_pc[c] = "sleep"
    /\ wall' = IF caller_val[c] > 0
               THEN Max(wall, caller_now[c] + caller_val[c])
               ELSE wall
    /\ caller_pc' = [caller_pc EXCEPT ![c] = "idle"]
    /\ UNCHANGED <<shared_bucket, caller_now, caller_val, entered, grants>>
    /\ UNCHANGED exceptRace

InitRace ==
    /\ pc = "idle"
    /\ DedupIdle
    /\ SearchIdle
    /\ OthersIdle

NextRace ==
    \/ RaceNew
    \/ RaceTick
    \/ \E c \in Threads : RefillNow(c)
    \/ \E c \in Threads : RefillElapsed(c)
    \/ \E c \in Threads : RefillCompute(c)
    \/ \E c \in Threads : RefillStore(c)
    \/ \E c \in Threads : RefillStamp(c)
    \/ \E c \in Threads : TakeTest(c)
    \/ \E c \in Threads : TakeLoad(c)
    \/ \E c \in Threads : TakeStore(c)
    \/ \E c \in Threads : TakeShort(c)
    \/ \E c \in Threads : WaitSleep(c)

SpecRace == InitRace /\ [][NextRace]_vars

\* C25: with several threads in wait() on one limiter, tokens is never
\* negative, and the take() calls that returned without a wait are never more
\* than the tokens there were: the capacity the bucket started with and what
\* the time that has passed refilled
C25_AtomicRefillAndTake ==
    shared_bucket # <<>> =>
        /\ shared_bucket.tokens >= 0
        /\ grants * TokenUnits <= shared_bucket.capacity + wall

-----------------------------------------------------------------------------
(* backend/app.py: get_orchestrator, called by the requests a threaded server
   handles at once.  The global is tested, then the orchestrator is
   constructed (eight adapters, their clients and limiters), then the global
   is assigned, then it is read again for the return; there is no lock.
   An instance is named by the request thread that constructed it. *)

\* get_orchestrator(): `if orchestrator is None`
GetTest(r) ==
    /\ get_pc[r] = "idle"
    /\ get_pc' = [get_pc EXCEPT ![r] =
                     IF orchestrator = 0 THEN "construct" ELSE "return"]
    /\ UNCHANGED <<orchestrator, created, got>>
    /\ UNCHANGED exceptOrch

\* get_orchestrator(): SearchOrchestrator(...), the construction
GetConstruct(r) ==
    /\ get_pc[r] = "construct"
    /\ created' = created \cup {r}
    /\ get_pc' = [get_pc EXCEPT ![r] = "assign"]
    /\ UNCHANGED <<orchestrator, got>>
    /\ UNCHANGED exceptOrch

\* get_orchestrator(): orchestrator = <the new instance>
GetAssign(r) ==
    /\ get_pc[r] = "assign"
    /\ orchestrator' = r
    /\ get_pc' = [get_pc EXCEPT ![r] = "return"]
    /\ UNCHANGED <<created, got>>
    /\ UNCHANGED exceptOrch

\* get_orchestrator(): return orchestrator
GetReturn(r) ==
    /\ get_pc[r] = "return"
    /\ got' = [got EXCEPT ![r] = @ \cup {orchestrator}]
    /\ get_pc' = [get_pc EXCEPT ![r] = "returned"]
    /\ UNCHANGED <<orchestrator, created>>
    /\ UNCHANGED exceptOrch

\* the request is over; the thread serves the next one
GetAgain(r) ==
    /\ get_pc[r] = "returned"
    /\ get_pc' = [get_pc EXCEPT ![r] = "idle"]
    /\ UNCHANGED <<orchestrator, created, got>>
    /\ UNCHANGED exceptOrch

InitOrch ==
    /\ pc = "idle"
    /\ DedupIdle
    /\ SearchIdle
    /\ OthersIdle

NextOrch ==
    \/ \E r \in Requests : GetTest(r)
    \/ \E r \in Requests : GetConstruct(r)
    \/ \E r \in Requests : GetAssign(r)
    \/ \E r \in Requests : GetReturn(r)
    \/ \E r \in Requests : GetAgain(r)

SpecOrch == InitOrch /\ [][NextOrch]_vars

\* C26: whatever the interleaving of the first requests, at most one
\* SearchOrchestrator is constructed, and all the instances the requests
\* receive, then and later, are that one
C26_CreatedOnce ==
    /\ Cardinality(created) <= 1
    /\ Cardinality(UNION { got[r] : r \in Requests }) <= 1

-----------------------------------------------------------------------------
(* _merge: what a merge changes *)

\* back-fill: the target's value where it has one, else the source's
BackFilled(old, from) == IF old # <<>> THEN old ELSE from

\* the step merged the record src into the record s
MergedHere(s, src) ==
    /\ s \in DOMAIN merged_into
    /\ src \in merged_into'[s] \ merged_into[s]

-----------------------------------------------------------------------------
(* The paging loops of the adapters: why they end *)

\* the step sent a batch request
Requested == batches' # batches

\* the batch the step received
Received == batches'[Len(batches')]

\* C28: a paging loop sends at most max_results batch requests, because every
\* iteration either leaves the loop or adds a paper; and the Europe PMC loop
\* is left when the next cursor is absent or repeats, so cursors that cycle
\* end with the papers reaching max_results
C28_PagingTerminates ==
    /\ [](page_adapter \in PaginatedAdapters => Len(batches) <= page_max)
    /\ [][ (page_adapter \in PaginatedAdapters /\ Requested) =>
              \/ page_pc' \in {"returned", "break"}
              \/ /\ page_pc' = "loop"
                 /\ Len(page_papers') > Len(page_papers) ]_vars
    /\ [][ ( /\ page_adapter = "Europe PMC"
             /\ Requested
             /\ Received.is_ok
             /\ \/ Received.value[2] = ""
                \/ Received.value[2] = page_cursor ) =>
              page_pc' = "break" ]_vars

\* C28 happens: Europe PMC sent the cursors back in a cycle, "*" to c1 and c1
\* to "*", with one paper each time, and the search returned its two papers
\* after two requests
C28_Witness ==
    /\ page_pc = "returned"
    /\ page_adapter = "Europe PMC"
    /\ page_max = 2
    /\ Len(batches) = 2
    /\ batches[1].is_ok /\ batches[1].value[2] = "c1"
    /\ batches[2].is_ok /\ batches[2].value[2] = "*"
    /\ page_result.is_ok
    /\ Len(page_result.value) = 2

-----------------------------------------------------------------------------
(* _update_reliability on papers that carry a retraction or contradictions *)

\* the reliability a paper may carry when _update_reliability is called: the
\* adapter's score, or one made with is_retracted=True
RescoreScores(paper) ==
    { calculate_reliability(paper, paper.source_type = PEER_REVIEWED,
                            paper.journal, paper.citation_count, 1,
                            paper.year, is_retracted) :
        is_retracted \in BOOLEAN }

\* the papers handed to _update_reliability: one record of the merge, found
\* in one source or in two
RescorePapers ==
    UNION { { [merged EXCEPT !.reliability = reliability] :
                reliability \in RescoreScores(merged) } :
            merged \in { [paper EXCEPT !.citation_count = citation_count,
                                       !.sources_found_in = sources] :
                            paper \in ScorePapers, citation_count \in {0, 25},
                            sources \in { <<"CrossRef">>,
                                          <<"CrossRef", "OpenAlex">> } } }

\* unique = list(heap) as _deduplicate leaves it
RescoreMake ==
    /\ rescore_pc = "idle"
    /\ \E paper \in RescorePapers : rescore_in' = <<paper>>
    /\ rescore_pc' = "made"
    /\ UNCHANGED <<rescore_out, exceptRescore>>

\* paper.reliability.contradictions.append(...)
RescoreContradict ==
    /\ rescore_pc = "made"
    /\ Len(rescore_in[1].reliability.contradictions) < MaxContradictions
    /\ rescore_in' =
          [rescore_in EXCEPT ![1].reliability.contradictions =
              Append(@, "contradiction")]
    /\ UNCHANGED <<rescore_pc, rescore_out, exceptRescore>>

\* self._update_reliability(unique)
RescoreUpdate ==
    /\ rescore_pc = "made"
    /\ rescore_out' = UpdateReliability(rescore_in, <<1>>)
    /\ rescore_pc' = "updated"
    /\ UNCHANGED <<rescore_in, exceptRescore>>

InitRescore ==
    /\ pc = "idle"
    /\ DedupIdle
    /\ SearchIdle
    /\ OthersIdle

NextRescore == RescoreMake \/ RescoreContradict \/ RescoreUpdate

SpecRescore == InitRescore /\ [][NextRescore]_vars

-----------------------------------------------------------------------------
(* Concurrent searches on the one orchestrator and its one progress_callback *)

\* the progress updates the stream of request s has delivered
ProgressDelivered(s) ==
    { stream_out[s][k].update :
        k \in { j \in DOMAIN stream_out[s] : stream_out[s][j].type = "progress" } }

\* C30: with several /search/stream requests running on the shared
\* orchestrator, a stream delivers only progress events of its own search,
\* and one that has ended has delivered all of them
C30_OwnProgressOnly ==
    \A s \in Streams :
        /\ \A update \in ProgressDelivered(s) : update.search = s
        /\ stream_pc[s] = "ended" =>
              \A k \in DOMAIN emitted[s] : emitted[s][k] \in ProgressDelivered(s)

====
